---------------------------- MODULE Spec2Model ----------------------------
(***************************************************************************)
(* Mountrix core: the fstab table store (core/fstab.py), the mount         *)
(* orchestrator (core/mounter.py) and the template engine                  *)
(* (core/templates.py), modelled as state machines.                        *)
(*                                                                         *)
(* Python strings are sequences of one-character strings, so that          *)
(* splitting, stripping, replacing and substring tests are computed the    *)
(* way the code computes them.  Optional[T] is a sequence of length 0      *)
(* (None) or 1.                                                            *)
(***************************************************************************)
EXTENDS Integers, Sequences, FiniteSets, TLC

VARIABLES
    fstab_exists,       \* the table file exists
    fstab,              \* content of the table file (characters)
    backup_dir_exists,  \* the backup directory exists
    backups,            \* backup files: timestamp (second) -> content
    clock,              \* datetime.now(), in seconds
    mounts,             \* live mount table (/proc/mounts), oldest first
    dirs,               \* existing directories (canonical paths)
    files,              \* existing non-directories (canonical paths)
    templates,          \* the NASTemplate objects the caller holds, by id
    op,                 \* name of the last operation called
    args,               \* its arguments, and the environment's answers
    exc,                \* the exception it raised (None if it returned)
    ret,                \* the value it returned (None if it raised)
    log,                \* what it did to the outside world, in order
    pre,                \* the state of the world when it was called
    procs               \* two processes that mutate the table file at once

vars == <<fstab_exists, fstab, backup_dir_exists, backups, clock, mounts,
          dirs, files, templates, op, args, exc, ret, log, pre, procs>>

---------------------------------------------------------------------------
(* Bounds of the model *)

\* datetime.now() takes the values 0..MaxClock
MaxClock == 1

\* the live mount table holds at most MaxMounts entries
MaxMounts == 2

\* the longest record list written to the table file in one piece
MaxEntries == 2

\* the longest nfs_options list of a template that is still applied
MaxOptions == 3

\* the number of lines of a table file written by an editor
MaxLines == 3

\* records are added to a table file of at most MaxRecords records
MaxRecords == 4

---------------------------------------------------------------------------
(* Optional values *)

None == <<>>

Some(x) == <<x>>

---------------------------------------------------------------------------
(* Python str operations *)

Whitespace == {" ", "\t", "\n"}

Digits == <<"0", "1", "2", "3", "4", "5", "6", "7", "8", "9">>

UpperChars == <<"A","B","C","D","E","F","G","H","I","J","K","L","M",
                "N","O","P","Q","R","S","T","U","V","W","X","Y","Z">>

LowerChars == <<"a","b","c","d","e","f","g","h","i","j","k","l","m",
                "n","o","p","q","r","s","t","u","v","w","x","y","z">>

\* str.lower(), one character
LowerChar(c) ==
    IF \E i \in 1..Len(UpperChars) : UpperChars[i] = c
    THEN LowerChars[CHOOSE i \in 1..Len(UpperChars) : UpperChars[i] = c]
    ELSE c

\* str.lower()
Lower(s) == [i \in 1..Len(s) |-> LowerChar(s[i])]

\* str.startswith(p)
StartsWith(s, p) == Len(s) >= Len(p) /\ SubSeq(s, 1, Len(p)) = p

\* p in s
Contains(s, p) ==
    \E i \in 0..(Len(s) - Len(p)) : SubSeq(s, i + 1, i + Len(p)) = p

\* str.lstrip() / str.rstrip() / str.strip(): surrounding whitespace removed
RECURSIVE LStrip(_)
LStrip(s) ==
    IF s # <<>> /\ Head(s) \in Whitespace THEN LStrip(Tail(s)) ELSE s

RECURSIVE RStrip(_)
RStrip(s) ==
    IF s # <<>> /\ s[Len(s)] \in Whitespace
    THEN RStrip(SubSeq(s, 1, Len(s) - 1))
    ELSE s

Strip(s) == RStrip(LStrip(s))

\* str.strip(c) for a single character c
RECURSIVE LStripChar(_, _)
LStripChar(s, c) ==
    IF s # <<>> /\ Head(s) = c THEN LStripChar(Tail(s), c) ELSE s

RECURSIVE RStripChar(_, _)
RStripChar(s, c) ==
    IF s # <<>> /\ s[Len(s)] = c
    THEN RStripChar(SubSeq(s, 1, Len(s) - 1), c)
    ELSE s

StripChar(s, c) == RStripChar(LStripChar(s, c), c)

\* str.replace(old, new): leftmost, non-overlapping occurrences (old # "")
RECURSIVE Replace(_, _, _)
Replace(s, old, new) ==
    IF Len(s) < Len(old) THEN s
    ELSE IF StartsWith(s, old)
         THEN new \o Replace(SubSeq(s, Len(old) + 1, Len(s)), old, new)
         ELSE <<Head(s)>> \o Replace(Tail(s), old, new)

\* str.split(c) for a single character c: empty pieces are kept
RECURSIVE SplitOn(_, _)
SplitOn(s, c) ==
    IF \E i \in 1..Len(s) : s[i] = c
    THEN LET i == CHOOSE k \in 1..Len(s) :
                      s[k] = c /\ \A j \in 1..(k - 1) : s[j] # c
         IN  <<SubSeq(s, 1, i - 1)>> \o SplitOn(SubSeq(s, i + 1, Len(s)), c)
    ELSE <<s>>

\* re.split(r"\s+", s): pieces between maximal runs of whitespace
RECURSIVE SplitWs(_)
SplitWs(s) ==
    IF \E i \in 1..Len(s) : s[i] \in Whitespace
    THEN LET i == CHOOSE k \in 1..Len(s) :
                      s[k] \in Whitespace
                      /\ \A j \in 1..(k - 1) : s[j] \notin Whitespace
         IN  <<SubSeq(s, 1, i - 1)>>
                 \o SplitWs(LStrip(SubSeq(s, i, Len(s))))
    ELSE <<s>>

\* sep.join(parts)
RECURSIVE Join(_, _)
Join(parts, sep) ==
    IF parts = <<>> THEN <<>>
    ELSE IF Len(parts) = 1 THEN parts[1]
    ELSE parts[1] \o sep \o Join(Tail(parts), sep)

\* str.isdigit()
IsDigit(s) ==
    s # <<>> /\ \A i \in 1..Len(s) : \E d \in 1..10 : Digits[d] = s[i]

DigitValue(c) == (CHOOSE d \in 1..10 : Digits[d] = c) - 1

\* int(s) for a string of digits
RECURSIVE ParseInt(_)
ParseInt(s) ==
    IF s = <<>> THEN 0
    ELSE 10 * ParseInt(SubSeq(s, 1, Len(s) - 1)) + DigitValue(s[Len(s)])

\* str(n) for an integer n
RECURSIVE NatToStr(_)
NatToStr(n) ==
    IF n < 10 THEN <<Digits[n + 1]>>
    ELSE NatToStr(n \div 10) \o <<Digits[(n % 10) + 1]>>

IntToStr(n) == IF n < 0 THEN <<"-">> \o NatToStr(0 - n) ELSE NatToStr(n)

\* the lines a text file yields when iterated (line ends removed)
FileLines(content) ==
    LET pieces == SplitOn(content, "\n")
    IN  IF pieces[Len(pieces)] = <<>>
        THEN SubSeq(pieces, 1, Len(pieces) - 1)
        ELSE pieces

---------------------------------------------------------------------------
(* String constants of core/fstab.py *)

s_defaults == <<"d","e","f","a","u","l","t","s">>

s_none == <<"n","o","n","e">>

s_swap == <<"s","w","a","p">>

s_slash == <<"/">>

s_comment_prefix == <<"#"," ">>

s_header == <<"#"," ","/","e","t","c","/","f","s","t","a","b",":"," ","s","t","a","t","i","c"," ","f","i","l","e"," ","s","y","s","t","e","m"," ","i","n","f","o","r","m","a","t","i","o","n">>

---------------------------------------------------------------------------
(* FstabEntry *)

FstabEntry(source, mountpoint, fstype, options, dump, pass_num, comment) ==
    [source |-> source, mountpoint |-> mountpoint, fstype |-> fstype,
     options |-> options, dump |-> dump, pass_num |-> pass_num,
     comment |-> comment]

\* faulty variant: the dump and pass fields are not written
EntryStr_NoDumpPass(e) ==
    e.source \o <<"\t">> \o e.mountpoint \o <<"\t">> \o e.fstype
        \o <<"\t">> \o Join(e.options, <<",">>)

\* FstabEntry.__str__
EntryStr(e) ==
    LET opts == IF e.options # <<>> THEN Join(e.options, <<",">>)
                ELSE s_defaults
    IN  e.source \o <<"\t">> \o e.mountpoint \o <<"\t">> \o e.fstype
            \o <<"\t">> \o opts \o <<"\t">> \o IntToStr(e.dump)
            \o <<"\t">> \o IntToStr(e.pass_num)

\* the truth value of entry.comment: neither None nor ""
HasComment(e) == e.comment # None /\ e.comment[1] # <<>>

\* _parse_fstab_line: None for a line of fewer than 4 fields
parse_fstab_line(line, comment) ==
    LET parts == SplitWs(Strip(line))
    IN  IF Len(parts) < 4 THEN None
        ELSE Some(FstabEntry(
                parts[1], parts[2], parts[3],
                IF parts[4] # <<>> THEN SplitOn(parts[4], ",")
                ELSE <<s_defaults>>,
                IF Len(parts) > 4 /\ IsDigit(parts[5])
                THEN ParseInt(parts[5]) ELSE 0,
                IF Len(parts) > 5 /\ IsDigit(parts[6])
                THEN ParseInt(parts[6]) ELSE 0,
                comment))

\* faulty variant: a line of fewer than 4 fields leaves the pending comment
\* in place
RECURSIVE ParseLines_KeepOnMalformed(_, _, _, _)
ParseLines_KeepOnMalformed(lines, i, current_comment, entries) ==
    IF i > Len(lines) THEN entries
    ELSE LET line == Strip(lines[i])
         IN  IF line = <<>>
             THEN ParseLines_KeepOnMalformed(lines, i + 1, None, entries)
             ELSE IF StartsWith(line, <<"#">>)
             THEN ParseLines_KeepOnMalformed(lines, i + 1,
                             Some(Strip(Tail(line))), entries)
             ELSE ParseLines_KeepOnMalformed(lines, i + 1,
                             IF parse_fstab_line(line, None) = None
                             THEN current_comment ELSE None,
                             entries \o parse_fstab_line(line,
                                                         current_comment))

\* the loop of parse_fstab over the lines from index i on
RECURSIVE ParseLines(_, _, _, _)
ParseLines(lines, i, current_comment, entries) ==
    IF i > Len(lines) THEN entries
    ELSE LET line == Strip(lines[i])
         IN  IF line = <<>>
             THEN ParseLines(lines, i + 1, None, entries)
             ELSE IF StartsWith(line, <<"#">>)
             THEN ParseLines(lines, i + 1,
                             Some(Strip(Tail(line))), entries)
             ELSE ParseLines(lines, i + 1, None,
                             entries \o parse_fstab_line(line,
                                                         current_comment))

\* parse_fstab on the content of an existing file
parse_fstab(content) == ParseLines(FileLines(content), 1, None, <<>>)

\* parse_fstab as a call
parse_fstab_call(w) ==
    IF ~w.fstab_exists
    THEN [w |-> w,
          exc |-> Some([type |-> "FileNotFoundError",
                        text |-> "fstab not found: {}", arg |-> None]),
          ret |-> None, log |-> <<>>]
    ELSE [w |-> w, exc |-> None, ret |-> Some(parse_fstab(w.fstab)),
          log |-> <<>>]

\* validate_entry: (is_valid, error_message).  The branch on the special
\* mountpoints "none", "swap" and "/" (lines 302-314) comes after the
\* startswith("/") test and changes no result: Path(str) does not raise.
validate_entry(e) ==
    IF e.source = <<>>
    THEN [ok |-> FALSE, msg |-> Some("Source cannot be empty")]
    ELSE IF e.mountpoint = <<>>
    THEN [ok |-> FALSE, msg |-> Some("Mountpoint cannot be empty")]
    ELSE IF ~StartsWith(e.mountpoint, s_slash)
    THEN [ok |-> FALSE, msg |-> Some("Mountpoint must be absolute path")]
    ELSE IF e.fstype = <<>>
    THEN [ok |-> FALSE, msg |-> Some("Filesystem type cannot be empty")]
    ELSE IF e.options = <<>>
    THEN [ok |-> FALSE,
          msg |-> Some("Options cannot be empty (use 'defaults' at minimum)")]
    ELSE IF e.dump \notin {0, 1, 2}
    THEN [ok |-> FALSE, msg |-> Some("Dump must be 0, 1, or 2")]
    ELSE IF e.pass_num \notin {0, 1, 2}
    THEN [ok |-> FALSE, msg |-> Some("Pass number must be 0, 1, or 2")]
    ELSE [ok |-> TRUE, msg |-> None]

\* _generate_fstab_content
RECURSIVE EntryLines(_)
EntryLines(entries) ==
    IF entries = <<>> THEN <<>>
    ELSE (IF HasComment(entries[1])
          THEN <<s_comment_prefix \o entries[1].comment[1]>> ELSE <<>>)
         \o <<EntryStr(entries[1])>> \o EntryLines(Tail(entries))

generate_fstab_content(entries) ==
    Join(<<s_header, <<>>>> \o EntryLines(entries), <<"\n">>) \o <<"\n">>

---------------------------------------------------------------------------
(* The world an operation acts on, and what an operation yields *)

World ==
    [fstab_exists |-> fstab_exists, fstab |-> fstab,
     backup_dir_exists |-> backup_dir_exists, backups |-> backups,
     mounts |-> mounts, dirs |-> dirs, files |-> files, clock |-> clock,
     templates |-> templates]

Exception(type, text, arg) == [type |-> type, text |-> text, arg |-> arg]

\* an operation that raised
Raised(w, e, lg) == [w |-> w, exc |-> Some(e), ret |-> None, log |-> lg]

\* an operation that returned
Returned(w, r, lg) == [w |-> w, exc |-> None, ret |-> Some(r), log |-> lg]

\* the elements of a list
Elements(list) == {list[i] : i \in 1..Len(list)}

\* the environment's faults: at most one OS call of an operation is refused
Faults == {"none", "backup_mkdir", "backup_copy", "write"}

---------------------------------------------------------------------------
(* Table store: backup, add, remove *)

\* faulty variant: the copy is made as text, without trailing whitespace
CopiedBytes_Stripped(content) == RStrip(content)

\* shutil.copy2: the bytes written to the backup file
CopiedBytes(content) == content

\* backup_fstab at second now; the returned value is the backup's timestamp
backup_fstab(w, now, fault) ==
    IF ~w.fstab_exists
    THEN Raised(w, Exception("FileNotFoundError", "fstab not found: {}", None),
                <<>>)
    ELSE IF fault = "backup_mkdir"
    THEN Raised(w, Exception("PermissionError", "mkdir", None), <<>>)
    ELSE IF fault = "backup_copy"
    THEN Raised([w EXCEPT !.backup_dir_exists = TRUE],
                Exception("PermissionError", "copy2", None), <<>>)
    ELSE Returned(
            [w EXCEPT !.backup_dir_exists = TRUE,
                      !.backups = [t \in (DOMAIN w.backups) \cup {now} |->
                                     IF t = now THEN CopiedBytes(w.fstab)
                                     ELSE w.backups[t]]],
            now,
            <<[ev |-> "backup", data |-> CopiedBytes(w.fstab)]>>)

\* faulty variant: the comment line is never written
AppendedText_NoComment(e) == EntryStr(e) \o <<"\n">>

\* the lines add_entry appends
AppendedText(e) ==
    (IF HasComment(e) THEN s_comment_prefix \o e.comment[1] \o <<"\n">>
     ELSE <<>>)
    \o EntryStr(e) \o <<"\n">>

\* faulty variant: the duplicate check compares the source as well
MountpointExists_SameSource(existing_entries, e) ==
    \E i \in 1..Len(existing_entries) :
        /\ existing_entries[i].mountpoint = e.mountpoint
        /\ existing_entries[i].source = e.source

\* the duplicate check of add_entry
MountpointExists(existing_entries, e) ==
    \E i \in 1..Len(existing_entries) :
        existing_entries[i].mountpoint = e.mountpoint

\* add_entry from the duplicate check on (after validation and backup)
AddChecked(w, e, fault, lg) ==
    IF ~w.fstab_exists
    THEN Raised(w, Exception("FileNotFoundError", "fstab not found: {}", None),
                lg)
    ELSE IF MountpointExists(parse_fstab(w.fstab), e)
    THEN Raised(w, Exception("ValueError",
                             "Mountpoint {} already exists in fstab",
                             e.mountpoint), lg)
    ELSE IF fault = "write"
    THEN Raised(w, Exception("PermissionError", "open", None), lg)
    ELSE Returned([w EXCEPT !.fstab = w.fstab \o AppendedText(e)], TRUE,
                  lg \o <<[ev |-> "write",
                           data |-> w.fstab \o AppendedText(e)]>>)

\* faulty variant: the backup is made before the record is validated
add_entry_BackupFirst(w, e, create_backup, now, fault) ==
    LET b == IF create_backup THEN backup_fstab(w, now, fault)
             ELSE Returned(w, now, <<>>)
    IN  IF b.exc # None THEN b
        ELSE IF ~validate_entry(e).ok
        THEN Raised(b.w, Exception("ValueError", "Invalid fstab entry: {}",
                                   validate_entry(e).msg[1]), b.log)
        ELSE AddChecked(b.w, e, fault, b.log)

\* add_entry
add_entry(w, e, create_backup, now, fault) ==
    IF ~validate_entry(e).ok
    THEN Raised(w, Exception("ValueError", "Invalid fstab entry: {}",
                             validate_entry(e).msg[1]), <<>>)
    ELSE IF create_backup
    THEN LET b == backup_fstab(w, now, fault)
         IN  IF b.exc # None THEN b
             ELSE AddChecked(b.w, e, fault, b.log)
    ELSE AddChecked(w, e, fault, <<>>)

\* _write_fstab
write_fstab(w, entries, lg) ==
    Returned([w EXCEPT !.fstab_exists = TRUE,
                       !.fstab = generate_fstab_content(entries)], TRUE,
             lg \o <<[ev |-> "write",
                      data |-> generate_fstab_content(entries)]>>)

\* faulty variant: the table is rewritten before the backup is made
remove_entry_WriteFirst(w, mountpoint, create_backup, now, fault) ==
    IF ~w.fstab_exists
    THEN Raised(w, Exception("FileNotFoundError", "fstab not found: {}", None),
                <<>>)
    ELSE LET entries == parse_fstab(w.fstab)
             new_entries == SelectSeq(entries,
                                LAMBDA x : x.mountpoint # mountpoint)
         IN  IF Len(new_entries) = Len(entries)
             THEN Returned(w, FALSE, <<>>)
             ELSE IF fault = "write"
             THEN Raised(w, Exception("PermissionError", "open", None), <<>>)
             ELSE LET wr == write_fstab(w, new_entries, <<>>)
                      b == IF create_backup
                           THEN backup_fstab(wr.w, now, fault)
                           ELSE Returned(wr.w, now, <<>>)
                  IN  IF b.exc # None THEN [b EXCEPT !.log = wr.log \o b.log]
                      ELSE Returned(b.w, TRUE, wr.log \o b.log)

\* faulty variant: the backup is made before the record is looked for
remove_entry_BackupFirst(w, mountpoint, create_backup, now, fault) ==
    IF ~w.fstab_exists
    THEN Raised(w, Exception("FileNotFoundError", "fstab not found: {}", None),
                <<>>)
    ELSE LET entries == parse_fstab(w.fstab)
             new_entries == SelectSeq(entries,
                                LAMBDA x : x.mountpoint # mountpoint)
             b == IF create_backup THEN backup_fstab(w, now, fault)
                  ELSE Returned(w, now, <<>>)
         IN  IF b.exc # None THEN b
             ELSE IF Len(new_entries) = Len(entries)
             THEN Returned(b.w, FALSE, b.log)
             ELSE IF fault = "write"
             THEN Raised(b.w, Exception("PermissionError", "open", None),
                         b.log)
             ELSE write_fstab(b.w, new_entries, b.log)

\* remove_entry
remove_entry(w, mountpoint, create_backup, now, fault) ==
    IF ~w.fstab_exists
    THEN Raised(w, Exception("FileNotFoundError", "fstab not found: {}", None),
                <<>>)
    ELSE LET entries == parse_fstab(w.fstab)
             new_entries == SelectSeq(entries,
                                LAMBDA x : x.mountpoint # mountpoint)
         IN  IF Len(new_entries) = Len(entries)
             THEN Returned(w, FALSE, <<>>)
             ELSE LET b == IF create_backup THEN backup_fstab(w, now, fault)
                           ELSE Returned(w, now, <<>>)
                  IN  IF b.exc # None THEN b
                      ELSE IF fault = "write"
                      THEN Raised(b.w, Exception("PermissionError", "open",
                                                 None), b.log)
                      ELSE write_fstab(b.w, new_entries, b.log)

---------------------------------------------------------------------------
(* String constants of core/mounter.py *)

s_mnt == <<"/","m","n","t">>

s_media == <<"/","m","e","d","i","a">>

s_dotdot == <<".",".">>

s_slashslash == <<"/","/">>

s_mount == <<"m","o","u","n","t">>

s_umount == <<"u","m","o","u","n","t">>

s_not_mounted == <<"n","o","t"," ","m","o","u","n","t","e","d">>

s_busy == <<"b","u","s","y">>

s_target_is_busy == <<"t","a","r","g","e","t"," ","i","s"," ","b","u","s","y">>

s_040 == <<"\\","0","4","0">>

---------------------------------------------------------------------------
(* The process environment *)

\* os.environ["USER"]
s_username == <<"n","i","c","o","l","e">>

\* the working directory, against which relative paths are resolved
Cwd == <<"/">>

---------------------------------------------------------------------------
(* pathlib.Path *)

\* Path(s): the root ("", "/" or "//") and the components; empty and "."
\* components are dropped, ".." is kept
PathOf(s) ==
    [root |-> IF StartsWith(s, <<"/","/","/">>) THEN <<"/">>
              ELSE IF StartsWith(s, s_slashslash) THEN s_slashslash
              ELSE IF StartsWith(s, s_slash) THEN s_slash
              ELSE <<>>,
     parts |-> SelectSeq(SplitOn(s, "/"),
                         LAMBDA c : c # <<>> /\ c # <<".">>)]

\* str(path)
PathStr(p) ==
    IF p.root = <<>> /\ p.parts = <<>> THEN <<".">>
    ELSE p.root \o Join(p.parts, s_slash)

\* path / s: an absolute right operand replaces the left one
PathJoin(p, s) ==
    IF PathOf(s).root # <<>> THEN PathOf(s)
    ELSE [root |-> p.root, parts |-> p.parts \o PathOf(s).parts]

\* ".." components resolved, from the root
RECURSIVE Collapse(_, _)
Collapse(parts, acc) ==
    IF parts = <<>> THEN acc
    ELSE IF parts[1] = s_dotdot
    THEN Collapse(Tail(parts),
                  IF acc = <<>> THEN acc ELSE SubSeq(acc, 1, Len(acc) - 1))
    ELSE Collapse(Tail(parts), Append(acc, parts[1]))

\* the canonical absolute path the operating system resolves s to
\* (Path.resolve(); there are no symbolic links)
Canon(s) ==
    LET p == PathOf(s)
        all == IF p.root = <<>> THEN PathOf(Cwd).parts \o p.parts
               ELSE p.parts
    IN  s_slash \o Join(Collapse(all, <<>>), s_slash)

\* Path.exists() / Path.is_dir()
PathExists(w, s) == Canon(s) \in w.dirs \cup w.files

\* faulty variant: a regular file is taken for a directory
PathIsDir_OrFile(w, s) == Canon(s) \in w.dirs \cup w.files

PathIsDir(w, s) == Canon(s) \in w.dirs

\* the canonical path and its ancestors below the root
Ancestors(s) ==
    LET parts == PathOf(Canon(s)).parts
    IN  {s_slash \o Join(SubSeq(parts, 1, n), s_slash) : n \in 1..Len(parts)}

---------------------------------------------------------------------------
(* Mount-state reader *)

\* the mountpoint field of a /proc/mounts line: the kernel writes space,
\* tab, newline and backslash as octal escapes
RECURSIVE KernelEscape(_)
KernelEscape(s) ==
    IF s = <<>> THEN <<>>
    ELSE (CASE Head(s) = " " -> s_040
            [] Head(s) = "\t" -> <<"\\","0","1","1">>
            [] Head(s) = "\n" -> <<"\\","0","1","2">>
            [] Head(s) = "\\" -> <<"\\","1","3","4">>
            [] OTHER -> <<Head(s)>>)
         \o KernelEscape(Tail(s))

\* verify_mount, reading /proc/mounts
verify_mount(w, mountpoint) ==
    /\ mountpoint # <<>>
    /\ \E i \in 1..Len(w.mounts) :
          Replace(KernelEscape(w.mounts[i].mountpoint), s_040, <<" ">>)
              = Canon(mountpoint)

---------------------------------------------------------------------------
(* The mount and umount utilities *)

\* what subprocess.run yields: the tool's exit, or an exception
ToolExit(rc, stderr, stdout) ==
    [kind |-> "exit", rc |-> rc, stderr |-> stderr, stdout |-> stdout]

ToolRaises(kind) ==
    [kind |-> kind, rc |-> 0, stderr |-> <<>>, stdout |-> <<>>]

\* the tool is not run
NoTool == ToolRaises("none")

ToolExceptions ==
    {ToolRaises("timeout"), ToolRaises("permission"),
     ToolRaises("notfound"), ToolRaises("error")}

\* some filesystem is mounted on the path
IsMounted(w, path) ==
    \E i \in 1..Len(w.mounts) : w.mounts[i].mountpoint = Canon(path)

\* what mount may answer
MountOutcomes ==
    {ToolExit(0, <<>>, <<>>),
     ToolExit(32, <<"m","o","u","n","t"," ","e","r","r","o","r",":"," ","a","c","c","e","s","s"," ","d","e","n","i","e","d","\n">>, <<>>),
     ToolExit(1, <<"\n">>, <<"m","o","u","n","t"," ","f","a","i","l","e","d">>)}
    \cup ToolExceptions

\* what umount may answer for the path it is given: it names the path in
\* its message
UmountOutcomes(w, mountpoint) ==
    (IF IsMounted(w, mountpoint)
     THEN {ToolExit(0, <<>>, <<>>),
           ToolExit(32, s_umount \o <<":"," ">> \o mountpoint
                         \o <<":"," ">> \o s_target_is_busy \o <<".","\n">>,
                    <<>>)}
     ELSE {ToolExit(32, s_umount \o <<":"," ">> \o mountpoint
                         \o <<":"," ">> \o s_not_mounted \o <<".","\n">>,
                    <<>>),
           ToolExit(1, <<>>, s_umount \o <<" ","f","a","i","l","e","d">>)})
    \cup ToolExceptions

\* the output of the mount utility run without arguments: one line
\* "source on mountpoint type fstype (rw)" per mount, paths unescaped
MountListing(w) ==
    Join([i \in 1..Len(w.mounts) |->
             w.mounts[i].source \o <<" ","o","n"," ">>
                 \o w.mounts[i].mountpoint \o <<" ","t","y","p","e"," ">>
                 \o w.mounts[i].fstype \o <<" ","(","r","w",")">>],
         <<"\n">>)

\* what the mount utility may answer when verify_mount falls back to it
ListingOutcomes(w) ==
    {ToolExit(0, <<>>, MountListing(w)),
     ToolExit(1, <<"m","o","u","n","t",":"," ","f","a","i","l","e","d">>, <<>>)}
    \cup ToolExceptions

\* how open("/proc/mounts") may end
ReadFaults == {"none", "proc_notfound", "proc_error"}

\* verify_mount, falling back to the output of the mount utility
verify_mount_fallback(mountpoint, t) ==
    /\ t.kind = "exit"
    /\ t.rc = 0
    /\ \E line \in Elements(SplitOn(t.stdout, "\n")) :
          Contains(line, <<" ","o","n"," ">> \o Canon(mountpoint) \o <<" ">>)

\* verify_mount as a whole: fault is how the read of /proc/mounts ends and
\* t is the answer of the mount utility if it is run
verify_mount_call(w, mountpoint, fault, t) ==
    IF mountpoint = <<>> THEN Returned(w, FALSE, <<>>)
    ELSE IF fault = "none"
    THEN Returned(w, verify_mount(w, mountpoint), <<[ev |-> "read", data |-> <<>>]>>)
    ELSE IF fault = "proc_notfound"
    THEN Returned(w, verify_mount_fallback(mountpoint, t),
                  <<[ev |-> "read", data |-> <<>>],
                    [ev |-> "mount", data |-> <<s_mount>>]>>)
    ELSE Returned(w, FALSE, <<[ev |-> "read", data |-> <<>>]>>)

\* the live mount table after a successful mount
AfterMount(w, e) ==
    [w EXCEPT !.mounts = Append(w.mounts,
        [source |-> e.source, mountpoint |-> Canon(e.mountpoint),
         fstype |-> e.fstype])]

\* the live mount table after a successful umount: the newest mount on the
\* path is gone
AfterUmount(w, mountpoint) ==
    LET hits == {i \in 1..Len(w.mounts) :
                    w.mounts[i].mountpoint = Canon(mountpoint)}
        last == CHOOSE i \in hits : \A j \in hits : j <= i
    IN  IF hits = {} THEN w
        ELSE [w EXCEPT !.mounts = SubSeq(w.mounts, 1, last - 1)
                           \o SubSeq(w.mounts, last + 1, Len(w.mounts))]

---------------------------------------------------------------------------
(* Mount orchestrator *)

Msg(text, arg) == [text |-> text, arg |-> arg]

MountResult(success, message, mountpoint, error_code) ==
    [success |-> success, message |-> message, mountpoint |-> mountpoint,
     error_code |-> error_code]

\* faulty variant: stdout is never used
ErrorMsg_StderrOnly(t) == Strip(t.stderr)

\* result.stderr.strip() or result.stdout.strip()
ErrorMsg(t) == IF Strip(t.stderr) # <<>> THEN Strip(t.stderr)
               ELSE Strip(t.stdout)

\* the sanitization of create_mountpoint
Sanitize(path) ==
    Replace(Replace(StripChar(path, "/"), s_dotdot, <<>>),
            s_slashslash, s_slash)

\* the directory create_mountpoint works on
FullPath(path, user_only) ==
    IF user_only
    THEN PathJoin(PathJoin(PathOf(s_media), s_username), Sanitize(path))
    ELSE PathJoin(PathOf(s_mnt), Sanitize(path))

\* create_mountpoint; fault is the OS call that is refused, if any
create_mountpoint(w, path, user_only, fault) ==
    LET full == PathStr(FullPath(path, user_only))
    IN  IF path = <<>>
        THEN Returned(w, MountResult(FALSE,
                Msg("Path cannot be empty", None), None, None), <<>>)
        ELSE IF Sanitize(path) = <<>>
        THEN Returned(w, MountResult(FALSE,
                Msg("Invalid path after sanitization", None), None, None),
                <<>>)
        ELSE IF PathExists(w, full)
        THEN IF PathIsDir(w, full)
             THEN Returned(w, MountResult(TRUE,
                     Msg("Mountpoint already exists: {}", full),
                     Some(full), None), <<>>)
             ELSE Returned(w, MountResult(FALSE,
                     Msg("Path exists but is not a directory: {}", full),
                     None, None), <<>>)
        ELSE IF fault = "mkdir_permission"
        THEN Returned(w, MountResult(FALSE,
                Msg("Permission denied creating {}. Root privileges required.",
                    full), None, None), <<>>)
        ELSE IF fault = "mkdir_error" \/ Ancestors(full) \cap w.files # {}
        THEN Returned(w, MountResult(FALSE,
                Msg("Error creating mountpoint: {}", None), None, None),
                <<>>)
        ELSE Returned([w EXCEPT !.dirs = w.dirs \cup Ancestors(full)],
                MountResult(TRUE, Msg("Mountpoint created: {}", full),
                            Some(full), None),
                <<[ev |-> "mkdir", data |-> <<full>>]>>
                \o (IF user_only /\ fault = "chown" THEN <<>>
                    ELSE IF user_only
                    THEN <<[ev |-> "chown", data |-> <<full>>],
                           [ev |-> "chmod", data |-> <<full>>]>>
                    ELSE <<[ev |-> "chmod", data |-> <<full>>]>>))

\* the command line of mount_entry
MountCmd(e) ==
    <<s_mount, <<"-","t">>, e.fstype>>
    \o (IF e.options # <<>>
        THEN <<<<"-","o">>, Join(e.options, <<",">>)>> ELSE <<>>)
    \o <<e.source, e.mountpoint>>

\* faulty variant: any existing path is taken for a directory
MountpointIsDir_AnyPath(w, mountpoint) == PathExists(w, mountpoint)

\* the is_dir() test of mount_entry
MountpointIsDir(w, mountpoint) == PathIsDir(w, mountpoint)

\* mount_entry; entry is Optional, t is what running mount yields
mount_entry(w, entry, t) ==
    IF entry = None \/ entry[1].source = <<>>
       \/ entry[1].mountpoint = <<>> \/ entry[1].fstype = <<>>
    THEN Returned(w, MountResult(FALSE,
            Msg("Invalid entry: missing required fields", None), None, None),
            <<>>)
    ELSE IF ~PathExists(w, entry[1].mountpoint)
    THEN Returned(w, MountResult(FALSE,
            Msg("Mountpoint does not exist: {}. Create it first.",
                entry[1].mountpoint), None, None), <<>>)
    ELSE IF ~MountpointIsDir(w, entry[1].mountpoint)
    THEN Returned(w, MountResult(FALSE,
            Msg("Mountpoint is not a directory: {}", entry[1].mountpoint),
            None, None), <<>>)
    ELSE LET e == entry[1]
             lg == <<[ev |-> "mount", data |-> MountCmd(e)]>>
         IN  IF t.kind = "exit" /\ t.rc = 0
             THEN Returned(AfterMount(w, e), MountResult(TRUE,
                     Msg("Successfully mounted {} to {}",
                         <<e.source, e.mountpoint>>),
                     Some(e.mountpoint), None), lg)
             ELSE IF t.kind = "exit"
             THEN Returned(w, MountResult(FALSE,
                     Msg("Mount failed: {}", ErrorMsg(t)), None, Some(t.rc)),
                     lg)
             ELSE IF t.kind = "timeout"
             THEN Returned(w, MountResult(FALSE,
                     Msg("Mount operation timed out", None), None, None), lg)
             ELSE IF t.kind = "permission"
             THEN Returned(w, MountResult(FALSE,
                     Msg("Permission denied. Root privileges required for mounting.",
                         None), None, None), lg)
             ELSE IF t.kind = "notfound"
             THEN Returned(w, MountResult(FALSE,
                     Msg("mount command not found. Install mount utilities.",
                         None), None, None), lg)
             ELSE Returned(w, MountResult(FALSE,
                     Msg("Unexpected error: {}", None), None, None), lg)

\* the command line of unmount_entry
UmountCmd(mountpoint, force) ==
    <<s_umount>> \o (IF force THEN <<<<"-","f">>>> ELSE <<>>)
    \o <<mountpoint>>

\* faulty variant: "not mounted" is not recognized
UnmountFailure_NoIdempotence(w, mountpoint, t, lg) ==
    IF Contains(Lower(ErrorMsg(t)), s_busy)
    THEN Returned(w, MountResult(FALSE,
            Msg("Unmount failed: Device is busy. Try force unmount or close applications using this mount.",
                None), None, Some(t.rc)), lg)
    ELSE Returned(w, MountResult(FALSE,
            Msg("Unmount failed: {}", ErrorMsg(t)), None, Some(t.rc)), lg)

\* the classification of a nonzero exit of umount
UnmountFailure(w, mountpoint, t, lg) ==
    IF Contains(Lower(ErrorMsg(t)), s_not_mounted)
    THEN Returned(w, MountResult(TRUE,
            Msg("{} is not mounted", mountpoint), Some(mountpoint), None),
            lg)
    ELSE IF Contains(Lower(ErrorMsg(t)), s_busy)
            \/ Contains(Lower(ErrorMsg(t)), s_target_is_busy)
    THEN Returned(w, MountResult(FALSE,
            Msg("Unmount failed: Device is busy. Try force unmount or close applications using this mount.",
                None), None, Some(t.rc)), lg)
    ELSE Returned(w, MountResult(FALSE,
            Msg("Unmount failed: {}", ErrorMsg(t)), None, Some(t.rc)), lg)

\* unmount_entry; t is what running umount yields
unmount_entry(w, mountpoint, force, t) ==
    IF mountpoint = <<>>
    THEN Returned(w, MountResult(FALSE,
            Msg("Mountpoint cannot be empty", None), None, None), <<>>)
    ELSE IF ~PathExists(w, mountpoint)
    THEN Returned(w, MountResult(FALSE,
            Msg("Mountpoint does not exist: {}", mountpoint), None, None),
            <<>>)
    ELSE LET lg == <<[ev |-> "umount",
                      data |-> UmountCmd(mountpoint, force)]>>
         IN  IF t.kind = "exit" /\ t.rc = 0
             THEN Returned(AfterUmount(w, mountpoint), MountResult(TRUE,
                     Msg("Successfully unmounted {}", mountpoint),
                     Some(mountpoint), None), lg)
             ELSE IF t.kind = "exit"
             THEN UnmountFailure(w, mountpoint, t, lg)
             ELSE IF t.kind = "timeout"
             THEN Returned(w, MountResult(FALSE,
                     Msg("Unmount operation timed out", None), None, None),
                     lg)
             ELSE IF t.kind = "permission"
             THEN Returned(w, MountResult(FALSE,
                     Msg("Permission denied. Root privileges required for unmounting.",
                         None), None, None), lg)
             ELSE IF t.kind = "notfound"
             THEN Returned(w, MountResult(FALSE,
                     Msg("umount command not found. Install mount utilities.",
                         None), None, None), lg)
             ELSE Returned(w, MountResult(FALSE,
                     Msg("Unexpected error: {}", None), None, None), lg)

\* the mount step of remount_entry, after what was logged so far
RemountMount(w, entry, mo, lg) ==
    LET m == mount_entry(w, entry, mo)
    IN  Returned(m.w, m.ret[1],
                 lg \o <<[ev |-> "mount_entry", data |-> <<>>]>> \o m.log)

\* the unmount step of remount_entry: the call, the tool, the result
RemountUnmount(w, entry, uo) ==
    LET u == unmount_entry(w, entry[1].mountpoint, FALSE, uo)
    IN  [u EXCEPT !.log =
            <<[ev |-> "unmount_entry", data |-> <<>>]>> \o u.log
            \o <<[ev |-> IF u.ret[1].success THEN "unmount_ok"
                         ELSE "unmount_failed", data |-> <<>>]>>]

\* faulty variant: the mount step is taken whatever the unmount step returned
remount_entry_IgnoreFailure(w, entry, uo, mo) ==
    IF entry = None \/ entry[1].mountpoint = <<>>
    THEN Returned(w, MountResult(FALSE, Msg("Invalid entry", None),
                                 None, None), <<>>)
    ELSE IF verify_mount(w, entry[1].mountpoint)
    THEN LET u == RemountUnmount(w, entry, uo)
         IN  RemountMount(u.w, entry, mo, u.log)
    ELSE RemountMount(w, entry, mo, <<>>)

\* remount_entry; uo and mo are what running umount and mount yield
remount_entry(w, entry, uo, mo) ==
    IF entry = None \/ entry[1].mountpoint = <<>>
    THEN Returned(w, MountResult(FALSE, Msg("Invalid entry", None),
                                 None, None), <<>>)
    ELSE IF verify_mount(w, entry[1].mountpoint)
    THEN LET u == RemountUnmount(w, entry, uo)
         IN  IF ~u.ret[1].success
             THEN Returned(u.w, MountResult(FALSE,
                     Msg("Failed to unmount before remounting: {}",
                         u.ret[1].message), None, None), u.log)
             ELSE RemountMount(u.w, entry, mo, u.log)
    ELSE RemountMount(w, entry, mo, <<>>)

---------------------------------------------------------------------------
(* Inputs of the table store *)

s_a == <<"/","a">>

s_b == <<"/","b">>

s_ext4 == <<"e","x","t","4">>

\* the table file at the start: "/", a commented "/b" and a swap line
SampleFstab == <<"U","U","I","D","=","1","\t","/","\t","e","x","t","4","\t","d","e","f","a","u","l","t","s","\t","0","\t","1","\n","#"," ","d","a","t","a","\n","s","d","b"," ","/","b"," ","e","x","t","4"," ","r","o",",","n","o","f","a","i","l"," ","0"," ","2","\n","\n","s","d","a","\t","n","o","n","e","\t","s","w","a","p","\t","s","w","\t","0","\t","0","\n">>

\* a table file whose last line has no newline
NoNewlineFstab == <<"s","d","b"," ","/","b"," ","e","x","t","4"," ","r","o"," ","0"," ","2">>

\* the table files the operations may find
TableFiles == {SampleFstab, NoNewlineFstab}

\* the records add is called with: valid ones on the same mountpoint that
\* differ in every other field (comment None, text and ""), and invalid ones
AddEntries ==
    {FstabEntry(<<"s","d","c">>, s_a, s_ext4, <<s_defaults>>, 0, 0, None),
     FstabEntry(<<"s","d","d">>, s_a, <<"n","f","s">>,
                <<<<"r","o">>, <<"n","o","f","a","i","l">>>>, 1, 2,
                Some(<<"n","a","s">>)),
     FstabEntry(<<"s","d","e">>, s_a, s_ext4, <<s_defaults>>, 0, 2,
                Some(<<>>)),
     FstabEntry(<<>>, s_b, s_ext4, <<s_defaults>>, 0, 0, None),
     FstabEntry(<<"s","d","a">>, s_none, s_swap, <<<<"s","w">>>>, 0, 0, None),
     FstabEntry(<<"s","d","c">>, s_a, s_ext4, <<s_defaults>>, 3, 0, None)}

\* the mountpoints remove is called with
RemoveMountpoints == {s_a, <<"/","z">>}

\* records whose mountpoint is a directory with a space in its name, and
\* one without
SpacedEntries ==
    {FstabEntry(<<"s","d","c">>, s_a, s_ext4, <<s_defaults>>, 0, 0, None),
     FstabEntry(<<"s","d","f">>, <<"/","m"," ","x">>, s_ext4, <<s_defaults>>,
                0, 0, None),
     FstabEntry(<<"s","d","g">>, <<"/","m"," ","y">>, s_ext4, <<s_defaults>>,
                0, 0, Some(<<"n","a","s">>))}

\* the mountpoints remove is called with after such records were added
SpacedMountpoints == {s_a, <<"/","m"," ","x">>, <<"/","m">>}

\* the mountpoints the removing process is called with
RaceMountpoints == {s_a, s_b}

\* the lines an editor writes into the table file: comment lines, blank
\* lines, a line of too few fields, and records
EditorLines ==
    {<<"#"," ","c","1">>, <<"#","c","2">>, <<>>, <<" ">>,
     <<"s","d","a"," ","/","x">>,
     <<"s","d","a"," ","/"," ","e","x","t","4"," ","r","w">>,
     <<"s","d","b","\t","/","b","\t","e","x","t","4","\t","r","o","\t","0","\t","2">>}

\* the table files written by an editor
EditorFiles ==
    {Join(lines, <<"\n">>) \o <<"\n">> :
        lines \in UNION {[1..n -> EditorLines] : n \in 1..MaxLines}}

\* the records validate is called with
ValidateEntries ==
    {FstabEntry(src, mp, ty, opts, d, p, None) :
        src \in {<<>>, <<"s","d","a">>},
        mp \in {<<>>, s_slash, s_a, s_none, s_swap, <<"r","e","l">>},
        ty \in {<<>>, s_ext4},
        opts \in {<<>>, <<s_defaults>>},
        d \in {0, 1, 2, 3},
        p \in {0 - 1, 0, 2, 3}}

\* the records written to the table file in one piece; each passes
\* validate_entry
WriteRecords ==
    {FstabEntry(<<"s","d","c">>, s_a, s_ext4, <<s_defaults>>, 0, 0, None),
     FstabEntry(<<"s","d","d">>, s_b, <<"n","f","s">>,
                <<<<"r","o">>, <<"n","o","f","a","i","l">>>>, 1, 2,
                Some(<<"n","a","s">>)),
     FstabEntry(<<"U","U","I","D","=","1">>, s_slash, s_ext4, <<s_defaults>>,
                0, 1, Some(<<"r","o","o","t"," ","d","i","s","k">>)),
     FstabEntry(<<"s","d","g">>, <<"/","g">>, s_ext4, <<s_defaults>>, 2, 1,
                None),
     FstabEntry(<<"/","/","n","a","s","/","m","y"," ","s","h","a","r","e">>,
                <<"/","c">>, <<"c","i","f","s">>, <<s_defaults>>, 0, 0, None),
     FstabEntry(<<"s","d","e">>, <<"/","d">>, s_ext4, <<s_defaults>>, 0, 2,
                Some(<<>>)),
     FstabEntry(<<"s","d","f">>, <<"/","f">>, s_ext4,
                <<<<"r","w",",","n","o","a","t","i","m","e">>>>, 0, 0, None)}

\* the record lists written to the table file in one piece
WriteInputs == UNION {[1..n -> WriteRecords] : n \in 0..MaxEntries}

---------------------------------------------------------------------------
(* Inputs of the mount orchestrator *)

s_mnt_nas == <<"/","m","n","t","/","n","a","s">>

s_mnt_not_mounted == <<"/","m","n","t","/","n","o","t"," ","m","o","u","n","t","e","d">>

s_mnt_missing == <<"/","m","n","t","/","m","i","s","s","i","n","g">>

s_mnt_file == <<"/","m","n","t","/","f","i","l","e">>

s_share == <<"/","/","n","a","s","/","s","h","a","r","e">>

s_cifs == <<"c","i","f","s">>

MountEntry(source, mountpoint, fstype) ==
    FstabEntry(source, mountpoint, fstype, <<s_defaults>>, 0, 0, None)

\* the records mount and remount are called with (None included)
MountEntries ==
    {None,
     Some(MountEntry(s_share, s_mnt_nas, s_cifs)),
     Some(FstabEntry(s_share, s_mnt_nas \o s_slash, s_cifs, <<>>, 0, 0, None)),
     Some(MountEntry(s_share, s_mnt_not_mounted, s_cifs)),
     Some(MountEntry(<<>>, s_mnt_nas, s_cifs)),
     Some(MountEntry(s_share, <<>>, s_cifs)),
     Some(MountEntry(s_share, s_mnt_nas, <<>>)),
     Some(MountEntry(s_share, s_mnt_missing, s_cifs)),
     Some(MountEntry(s_share, s_mnt_file, s_cifs))}

\* the mountpoints unmount is called with
UnmountPaths == {<<>>, s_mnt_nas, s_mnt_not_mounted, s_mnt_missing}

\* the paths create_mountpoint is called with
CreatePaths ==
    {<<>>, s_dotdot, <<"n","a","s">>, <<".",".","/","e","t","c">>,
     <<".",".","/","o","p","t">>,
     <<"a","/",".",".","/","b">>, <<"f","i","l","e">>,
     <<"f","i","l","e","/","x">>}

CreateFaults == {"none", "mkdir_permission", "mkdir_error", "chown"}

s_mnt_tab == <<"/","m","n","t","/","a","\t","b">>

\* the filesystems other processes mount
ExternalMounts ==
    {[source |-> s_share, mountpoint |-> s_mnt_nas, fstype |-> s_cifs],
     [source |-> s_share, mountpoint |-> s_mnt_not_mounted, fstype |-> s_cifs],
     [source |-> <<"/","d","e","v","/","s","d","b","1">>,
      mountpoint |-> s_mnt_tab, fstype |-> s_ext4]}

\* the paths verify_mount is called with
VerifyPaths ==
    {<<>>, s_mnt_nas, s_mnt_nas \o s_slash,
     <<"/","m","n","t","/",".",".","/","m","n","t","/","n","a","s">>,
     <<"m","n","t","/","n","a","s">>, s_mnt, s_mnt_not_mounted, s_mnt_tab,
     s_mnt_missing}

---------------------------------------------------------------------------
(* Template engine *)

s_host == <<"h","o","s","t">>

s_mountpoint == <<"m","o","u","n","t","p","o","i","n","t">>

s_share_key == <<"s","h","a","r","e">>

s_export == <<"e","x","p","o","r","t">>

s_username_key == <<"u","s","e","r","n","a","m","e">>

s_password == <<"p","a","s","s","w","o","r","d">>

s_credentials_file == <<"c","r","e","d","e","n","t","i","a","l","s","_","f","i","l","e">>

s_uid == <<"u","i","d">>

s_gid == <<"g","i","d">>

s_nfs == <<"n","f","s">>

s_nfs4 == <<"n","f","s","4">>

s_smb == <<"s","m","b">>

s_credentials == <<"c","r","e","d","e","n","t","i","a","l","s">>

\* NASTemplate: the fields apply_template reads
NASTemplate(name, protocol, default_share_path, default_options, auth_method, description, nfs_support, nfs_options) ==
    [name |-> name, protocol |-> protocol,
     default_share_path |-> default_share_path,
     default_options |-> default_options, auth_method |-> auth_method,
     description |-> description, nfs_support |-> nfs_support,
     nfs_options |-> nfs_options]

\* user_input.get(key, default)
Get(user_input, key, default) ==
    IF key \in DOMAIN user_input THEN user_input[key] ELSE default

\* str.format(**user_input) from position i on: each {key} is replaced by
\* the value of the key; a key that is absent raises KeyError
RECURSIVE Format(_, _, _)
Format(fmt, user_input, i) ==
    IF i > Len(fmt) THEN [ok |-> TRUE, text |-> <<>>]
    ELSE IF fmt[i] = "{"
    THEN LET close == CHOOSE j \in (i + 1)..(Len(fmt) + 1) :
                         /\ j = Len(fmt) + 1 \/ fmt[j] = "}"
                         /\ \A k \in (i + 1)..(j - 1) : fmt[k] # "}"
             key == SubSeq(fmt, i + 1, close - 1)
             rest == Format(fmt, user_input, close + 1)
         IN  IF key \notin DOMAIN user_input \/ ~rest.ok
             THEN [ok |-> FALSE, text |-> key]
             ELSE [ok |-> TRUE, text |-> user_input[key] \o rest.text]
    ELSE LET rest == Format(fmt, user_input, i + 1)
         IN  IF ~rest.ok THEN rest
             ELSE [ok |-> TRUE, text |-> <<fmt[i]>> \o rest.text]

\* the required fields that user_input lacks, in the order of the list
MissingFields(user_input) ==
    SelectSeq(<<s_host, s_mountpoint>>,
              LAMBDA f : f \notin DOMAIN user_input)

\* the filesystem type apply_template chooses
Protocol(t, use_nfs) ==
    IF use_nfs
    THEN IF Contains(t.protocol, s_nfs) THEN s_nfs ELSE s_nfs4
    ELSE t.protocol

\* the options list apply_template starts from is the template's own
\* nfs_options list, not a copy
SharesNfsOptions(t, use_nfs) ==
    use_nfs /\ t.nfs_options # None /\ t.nfs_options[1] # <<>>

\* the options apply_template starts from
StartOptions(t, use_nfs) ==
    IF SharesNfsOptions(t, use_nfs) THEN t.nfs_options[1]
    ELSE IF use_nfs THEN <<s_defaults>>
    ELSE t.default_options

\* the source path: [ok, text], not ok when format raises KeyError
Source(t, user_input, protocol) ==
    IF protocol \in {s_cifs, s_smb}
    THEN [ok |-> TRUE,
          text |-> s_slashslash \o user_input[s_host] \o s_slash
                   \o Get(user_input, s_share_key, <<>>)]
    ELSE IF protocol \in {s_nfs, s_nfs4}
    THEN [ok |-> TRUE,
          text |-> user_input[s_host] \o <<":">>
                   \o Get(user_input, s_share_key,
                          Get(user_input, s_export, <<>>))]
    ELSE Format(t.default_share_path, user_input, 1)

\* the options after the credentials step
WithCredentials(t, user_input, options) ==
    IF t.auth_method # s_credentials THEN options
    ELSE IF s_credentials_file \in DOMAIN user_input
    THEN Append(options, s_credentials \o <<"=">>
                         \o user_input[s_credentials_file])
    ELSE IF s_username_key \in DOMAIN user_input
    THEN Append(options, s_username_key \o <<"=">>
                         \o user_input[s_username_key])
         \o (IF s_password \in DOMAIN user_input
             THEN <<s_password \o <<"=">> \o user_input[s_password]>>
             ELSE <<>>)
    ELSE options

\* the options after the step for key ("uid" or "gid"): appended unless the
\* text key=value occurs in the comma-joined options
WithId(user_input, key, options) ==
    IF key \in DOMAIN user_input
       /\ ~Contains(Join(options, <<",">>),
                    key \o <<"=">> \o user_input[key])
    THEN Append(options, key \o <<"=">> \o user_input[key])
    ELSE options

\* the options of the record apply_template returns
FinalOptions(t, user_input, use_nfs) ==
    WithId(user_input, s_gid,
        WithId(user_input, s_uid,
            WithCredentials(t, user_input, StartOptions(t, use_nfs))))

\* faulty variant: only the first missing field is reported
MissingMessage_FirstOnly(missing) == missing[1]

\* ', '.join(missing)
MissingMessage(missing) == Join(missing, <<",", " ">>)

\* apply_template on the template object held under id
apply_template(w, id, user_input, use_nfs) ==
    LET t == w.templates[id]
        protocol == Protocol(t, use_nfs)
        source == Source(t, user_input, protocol)
        options == FinalOptions(t, user_input, use_nfs)
        after == IF SharesNfsOptions(t, use_nfs)
                 THEN [w EXCEPT !.templates[id].nfs_options = Some(options)]
                 ELSE w
    IN  IF MissingFields(user_input) # <<>>
        THEN Raised(w, Exception("ValueError", "Missing required fields: {}",
                                 MissingMessage(MissingFields(user_input))),
                    <<>>)
        ELSE IF use_nfs /\ ~t.nfs_support
        THEN Raised(w, Exception("ValueError", "{} does not support NFS",
                                 t.name), <<>>)
        ELSE IF ~source.ok
        THEN Raised(w, Exception("KeyError", "{}", source.text), <<>>)
        ELSE Returned(after,
                FstabEntry(source.text, user_input[s_mountpoint], protocol,
                           options, 0, 0,
                           Some(t.name \o <<" ", "-", " ">> \o t.description)),
                <<>>)

---------------------------------------------------------------------------
(* Inputs of the template engine *)

\* the template objects at load
Catalog ==
    [id \in {"fritznas", "synology", "generic_nfs", "truenas", "sshfs",
             "samba"} |->
        CASE id = "fritznas" ->
                NASTemplate(<<"F","R","I","T","Z","!","N","A","S">>, s_cifs,
                    <<"/","/","{","h","o","s","t","}","/","{","s","h","a","r","e","}">>,
                    <<<<"v","e","r","s","=","3",".","0">>, <<"n","o","f","a","i","l">>>>,
                    s_credentials, <<"A","V","M">>, FALSE, None)
          [] id = "synology" ->
                NASTemplate(<<"S","y","n","o","l","o","g","y">>, s_cifs,
                    <<"/","/","{","h","o","s","t","}","/","{","s","h","a","r","e","}">>,
                    <<<<"v","e","r","s","=","3",".","0">>>>,
                    s_credentials, <<"D","S","M">>, TRUE,
                    Some(<<<<"n","f","s","v","e","r","s","=","4">>>>))
          [] id = "generic_nfs" ->
                NASTemplate(<<"N","F","S">>, s_nfs,
                    <<"{","h","o","s","t","}",":","{","s","h","a","r","e","}">>,
                    <<<<"n","f","s","v","e","r","s","=","4">>>>,
                    s_none, <<"g","e","n","e","r","i","c">>, TRUE, None)
          [] id = "truenas" ->
                NASTemplate(<<"T","r","u","e","N","A","S">>, s_nfs4,
                    <<"{","h","o","s","t","}",":","{","s","h","a","r","e","}">>,
                    <<s_defaults>>,
                    s_none, <<"v","4">>, TRUE, Some(<<>>))
          [] id = "sshfs" ->
                NASTemplate(<<"S","S","H","F","S">>, <<"s","s","h","f","s">>,
                    <<"{","u","s","e","r","n","a","m","e","}","@","{","h","o","s","t","}",":","{","s","h","a","r","e","}">>,
                    <<s_defaults>>,
                    <<"k","e","y">>, <<"s","s","h">>, FALSE, None)
          [] id = "samba" ->
                NASTemplate(<<"S","a","m","b","a">>, s_smb,
                    <<"/","/","{","h","o","s","t","}","/","{","s","h","a","r","e","}">>,
                    <<<<"u","i","d","=","1","0","0","0">>>>,
                    s_none, <<"s","m","b">>, FALSE, None)]

\* the required fields of a complete input
BaseInput == (s_host :> <<"n","a","s">>) @@ (s_mountpoint :> s_mnt_nas)

\* the user_input dictionaries apply_template is called with
UserInputs ==
    {<<>>,
     (s_host :> <<"n","a","s">>),
     (s_mountpoint :> s_mnt_nas),
     (s_share_key :> <<"d","a","t","a">>),
     BaseInput,
     BaseInput @@ (s_share_key :> <<"d","a","t","a">>),
     BaseInput @@ (s_export :> <<"/","e","x","p","o","r","t">>),
     BaseInput @@ (s_share_key :> <<"d","a","t","a">>)
               @@ (s_export :> <<"/","e","x","p","o","r","t">>),
     BaseInput @@ (s_share_key :> <<"d","a","t","a">>)
               @@ (s_uid :> <<"1","0","0","0">>) @@ (s_gid :> <<"1","0","0","0">>),
     BaseInput @@ (s_share_key :> <<"d","a","t","a">>)
               @@ (s_uid :> <<"1","0","0">>),
     BaseInput @@ (s_share_key :> <<"d","a","t","a">>)
               @@ (s_credentials_file :> <<"/","c">>)
               @@ (s_username_key :> <<"u">>) @@ (s_password :> <<"p">>),
     BaseInput @@ (s_share_key :> <<"d","a","t","a">>)
               @@ (s_username_key :> <<"u">>) @@ (s_password :> <<"p">>),
     BaseInput @@ (s_share_key :> <<"d","a","t","a">>)
               @@ (s_username_key :> <<"u">>)}

---------------------------------------------------------------------------
(* State machine *)

\* add_entry in one process and remove_entry in another, each at most
\* once and without backup: pc is the position in the function, between is
\* set when the append happens between the read and the rewrite of remove
NoProcs ==
    [adder |-> [pc |-> "idle", entry |-> None, exc |-> None, ret |-> None,
                between |-> FALSE],
     remover |-> [pc |-> "idle", mountpoint |-> <<>>, new_entries |-> <<>>,
                  exc |-> None, ret |-> None]]

NoArgs ==
    [entry |-> None, entries |-> <<>>, mountpoint |-> <<>>, path |-> <<>>,
     create_backup |-> FALSE, force |-> FALSE, user_only |-> FALSE,
     template |-> <<>>, user_input |-> <<>>, use_nfs |-> FALSE,
     fault |-> "none", umount |-> NoTool, mount |-> NoTool]

\* the state after construction, the table file and the templates apart
InitOthers ==
    /\ backup_dir_exists = FALSE
    /\ backups = <<>>
    /\ clock = 0
    /\ mounts = <<>>
    /\ dirs = {s_slash, s_mnt, <<"/","e","t","c">>, s_media, s_mnt_nas,
               s_mnt_not_mounted}
    /\ files = {s_mnt_file}
    /\ op = "none"
    /\ args = NoArgs
    /\ exc = None
    /\ ret = None
    /\ log = <<>>
    /\ pre = World
    /\ procs = NoProcs

\* no template is loaded
NoTemplates == [id \in {} |-> None]

Init ==
    /\ fstab_exists \in BOOLEAN
    /\ fstab \in (IF fstab_exists THEN TableFiles ELSE {<<>>})
    /\ templates = NoTemplates
    /\ InitOthers

\* the caller holds the templates as loaded
InitTemplates ==
    /\ fstab_exists = TRUE
    /\ fstab = SampleFstab
    /\ templates = Catalog
    /\ InitOthers

\* the table file is one an editor wrote, or is missing
InitParse ==
    /\ fstab_exists \in BOOLEAN
    /\ fstab \in (IF fstab_exists THEN EditorFiles ELSE {<<>>})
    /\ templates = NoTemplates
    /\ InitOthers

\* the operation name, called with a when no call is in progress, yields
\* the outcome o
Apply(name, a, o) ==
    /\ op = "none"
    /\ \E r \in {o} :
        /\ op' = name
        /\ args' = a
        /\ exc' = r.exc
        /\ ret' = r.ret
        /\ log' = r.log
        /\ pre' = World
        /\ fstab_exists' = r.w.fstab_exists
        /\ fstab' = r.w.fstab
        /\ backup_dir_exists' = r.w.backup_dir_exists
        /\ backups' = r.w.backups
        /\ mounts' = r.w.mounts
        /\ dirs' = r.w.dirs
        /\ files' = r.w.files
        /\ templates' = r.w.templates
        /\ UNCHANGED <<clock, procs>>

HasEvent(lg, ev) == \E i \in 1..Len(lg) : lg[i].ev = ev

\* the caller takes the result of the last operation
Return ==
    /\ op # "none"
    /\ op' = "none"
    /\ args' = NoArgs
    /\ exc' = None
    /\ ret' = None
    /\ log' = <<>>
    /\ pre' = World
    /\ UNCHANGED <<fstab_exists, fstab, backup_dir_exists, backups, clock,
                   mounts, dirs, files, templates, procs>>

\* datetime.now() advances between two operations
Tick ==
    /\ op = "none"
    /\ clock < MaxClock
    /\ clock' = clock + 1
    /\ pre' = [World EXCEPT !.clock = clock + 1]
    /\ UNCHANGED <<fstab_exists, fstab, backup_dir_exists, backups, mounts,
                   dirs, files, templates, op, args, exc, ret, log, procs>>

Validate(e) ==
    Apply("validate", [NoArgs EXCEPT !.entry = Some(e)],
          Returned(World, validate_entry(e), <<>>))

\* the environment refuses an OS call only if the operation makes it: a
\* fault is offered when it changes what the operation does
Backup(fault) ==
    /\ op = "none"
    /\ IF fault = "none" THEN TRUE
       ELSE backup_fstab(World, clock, fault)
                # backup_fstab(World, clock, "none")
    /\ Apply("backup", [NoArgs EXCEPT !.fault = fault],
             backup_fstab(World, clock, fault))

Add(e, create_backup, fault) ==
    /\ op = "none"
    /\ IF fault = "none" THEN TRUE
       ELSE add_entry(World, e, create_backup, clock, fault)
                # add_entry(World, e, create_backup, clock, "none")
    /\ Apply("add",
             [NoArgs EXCEPT !.entry = Some(e),
                            !.create_backup = create_backup, !.fault = fault],
             add_entry(World, e, create_backup, clock, fault))

Remove(mountpoint, create_backup, fault) ==
    /\ op = "none"
    /\ IF fault = "none" THEN TRUE
       ELSE remove_entry(World, mountpoint, create_backup, clock, fault)
                # remove_entry(World, mountpoint, create_backup, clock, "none")
    /\ Apply("remove",
             [NoArgs EXCEPT !.mountpoint = mountpoint,
                            !.create_backup = create_backup, !.fault = fault],
             remove_entry(World, mountpoint, create_backup, clock, fault))

\* _write_fstab: the table file is regenerated from a record list
Write(entries) ==
    Apply("write", [NoArgs EXCEPT !.entries = entries],
          write_fstab(World, entries, <<>>))

\* apply_template on a template object the caller holds
ApplyTemplate(id, user_input, use_nfs) ==
    /\ op = "none"
    /\ IF templates[id].nfs_options = None THEN TRUE
       ELSE Len(templates[id].nfs_options[1]) <= MaxOptions
    /\ Apply("apply",
             [NoArgs EXCEPT !.template = id, !.user_input = user_input,
                            !.use_nfs = use_nfs],
             apply_template(World, id, user_input, use_nfs))

\* the environment refuses an OS call only if the operation makes one
CreateMountpoint(path, user_only) ==
    /\ op = "none"
    /\ \E fault \in (IF create_mountpoint(World, path, user_only, "none").log
                      = <<>>
                  THEN {"none"} ELSE CreateFaults) :
        Apply("create_mountpoint",
              [NoArgs EXCEPT !.path = path, !.user_only = user_only,
                             !.fault = fault],
              create_mountpoint(World, path, user_only, fault))

\* the answers of mount, given the world it runs in; NoTool when the
\* operation, tried without an answer, does not run it
MountAnswers(w, lg) ==
    IF ~HasEvent(lg, "mount") THEN {NoTool}
    ELSE {t \in MountOutcomes :
             t.kind = "exit" /\ t.rc = 0 => Len(w.mounts) < MaxMounts}

\* the answers of umount for mountpoint; NoTool when the operation, tried
\* without an answer, does not run it
UmountAnswers(w, mountpoint, lg) ==
    IF ~HasEvent(lg, "umount") THEN {NoTool}
    ELSE UmountOutcomes(w, mountpoint)

Mount(entry) ==
    /\ op = "none"
    /\ \E t \in MountAnswers(World, mount_entry(World, entry, NoTool).log) :
        Apply("mount", [NoArgs EXCEPT !.entry = entry, !.mount = t],
              mount_entry(World, entry, t))

Unmount(mountpoint, force) ==
    /\ op = "none"
    /\ \E t \in UmountAnswers(World, mountpoint,
                  unmount_entry(World, mountpoint, force, NoTool).log) :
        Apply("unmount",
              [NoArgs EXCEPT !.mountpoint = mountpoint, !.force = force,
                             !.umount = t],
              unmount_entry(World, mountpoint, force, t))

Remount(entry) ==
    /\ op = "none"
    /\ \E uo \in UmountAnswers(World,
                   IF entry = None THEN <<>> ELSE entry[1].mountpoint,
                   remount_entry(World, entry, NoTool, NoTool).log) :
        \E u \in {remount_entry(World, entry, uo, NoTool)} :
            \E mo \in MountAnswers(u.w, u.log) :
                Apply("remount",
                      [NoArgs EXCEPT !.entry = entry, !.umount = uo,
                                     !.mount = mo],
                      remount_entry(World, entry, uo, mo))

\* verify_mount; the read of /proc/mounts and the mount utility answer only
\* if the operation gets to them
Verify(path, fault) ==
    /\ op = "none"
    /\ IF path = <<>> THEN fault = "none" ELSE TRUE
    /\ \E t \in (IF path # <<>> /\ fault = "proc_notfound"
                  THEN ListingOutcomes(World) ELSE {NoTool}) :
          Apply("verify",
                [NoArgs EXCEPT !.path = path, !.fault = fault, !.mount = t],
                verify_mount_call(World, path, fault, t))

\* another process mounts a filesystem
ExternalMount(m) ==
    /\ op = "none"
    /\ Len(mounts) < MaxMounts
    /\ mounts' = Append(mounts, m)
    /\ pre' = [World EXCEPT !.mounts = Append(mounts, m)]
    /\ UNCHANGED <<fstab_exists, fstab, backup_dir_exists, backups, clock,
                   dirs, files, templates, op, args, exc, ret, log, procs>>

\* add_entry up to the duplicate check: validation and parse_fstab
AddRead(e) ==
    /\ op = "none"
    /\ procs.adder.pc = "idle"
    /\ \E o \in {add_entry(World, e, FALSE, clock, "none")} :
          procs' = [procs EXCEPT !.adder =
                      IF o.exc # None
                      THEN [@ EXCEPT !.pc = "done", !.entry = Some(e),
                                     !.exc = o.exc]
                      ELSE [@ EXCEPT !.pc = "checked", !.entry = Some(e)]]
    /\ UNCHANGED <<fstab_exists, fstab, backup_dir_exists, backups, clock,
                   mounts, dirs, files, templates, op, args, exc, ret, log,
                   pre>>

\* add_entry from open(fstab_path, "a") on: the record is appended to the
\* file as it is now
AddAppend ==
    /\ op = "none"
    /\ procs.adder.pc = "checked"
    /\ fstab_exists' = TRUE
    /\ fstab' = fstab \o AppendedText(procs.adder.entry[1])
    /\ procs' = [procs EXCEPT !.adder.pc = "done", !.adder.ret = Some(TRUE),
                              !.adder.between = (procs.remover.pc = "read")]
    /\ UNCHANGED <<backup_dir_exists, backups, clock, mounts, dirs, files,
                   templates, op, args, exc, ret, log, pre>>

\* remove_entry up to the rewrite: parse_fstab and the search
RemoveRead(mountpoint) ==
    /\ op = "none"
    /\ procs.remover.pc = "idle"
    /\ \E o \in {remove_entry(World, mountpoint, FALSE, clock, "none")} :
          procs' = [procs EXCEPT !.remover =
                      IF o.exc # None
                      THEN [@ EXCEPT !.pc = "done", !.mountpoint = mountpoint,
                                     !.exc = o.exc]
                      ELSE IF o.ret = Some(FALSE)
                      THEN [@ EXCEPT !.pc = "done", !.mountpoint = mountpoint,
                                     !.ret = o.ret]
                      ELSE [@ EXCEPT !.pc = "read", !.mountpoint = mountpoint,
                                     !.new_entries =
                                        SelectSeq(parse_fstab(fstab),
                                           LAMBDA x :
                                              x.mountpoint # mountpoint)]]
    /\ UNCHANGED <<fstab_exists, fstab, backup_dir_exists, backups, clock,
                   mounts, dirs, files, templates, op, args, exc, ret, log,
                   pre>>

\* remove_entry from _write_fstab on: the file is rewritten from the
\* records read before
RemoveWrite ==
    /\ op = "none"
    /\ procs.remover.pc = "read"
    /\ fstab' = generate_fstab_content(procs.remover.new_entries)
    /\ procs' = [procs EXCEPT !.remover.pc = "done",
                              !.remover.ret = Some(TRUE)]
    /\ UNCHANGED <<fstab_exists, backup_dir_exists, backups, clock, mounts,
                   dirs, files, templates, op, args, exc, ret, log, pre>>

Parse ==
    Apply("parse", NoArgs, parse_fstab_call(World))

NextValidate ==
    \/ \E e \in ValidateEntries : Validate(e)
    \/ Return

NextTable ==
    \/ Return
    \/ Tick
    \/ \E fault \in Faults \ {"write"} : Backup(fault)
    \/ \E e \in AddEntries, cb \in BOOLEAN, fault \in Faults :
          Add(e, cb, fault)
    \/ \E mp \in RemoveMountpoints, cb \in BOOLEAN, fault \in Faults :
          Remove(mp, cb, fault)

NextMount ==
    \/ Return
    \/ \E path \in CreatePaths, user_only \in BOOLEAN :
          CreateMountpoint(path, user_only)
    \/ \E entry \in MountEntries : Mount(entry)
    \/ \E mp \in UnmountPaths, force \in BOOLEAN : Unmount(mp, force)
    \/ \E entry \in MountEntries : Remount(entry)

NextWrite ==
    \/ Return
    \/ \E entries \in WriteInputs : Write(entries)

\* regeneration of the table file
SpecWrite == Init /\ [][NextWrite]_vars

InitMount == Init /\ fstab_exists /\ fstab = SampleFstab

NextTemplates ==
    \/ Return
    \/ \E id \in DOMAIN Catalog, user_input \in UserInputs,
          use_nfs \in BOOLEAN :
          ApplyTemplate(id, user_input, use_nfs)

\* the template engine
SpecTemplates == InitTemplates /\ [][NextTemplates]_vars

NextVerify ==
    \/ Return
    \/ \E m \in ExternalMounts : ExternalMount(m)
    \/ \E path \in VerifyPaths, fault \in ReadFaults : Verify(path, fault)

\* the mount-state reader
SpecVerify == InitMount /\ [][NextVerify]_vars

NextRace ==
    \/ \E e \in AddEntries : AddRead(e)
    \/ AddAppend
    \/ \E mp \in RaceMountpoints : RemoveRead(mp)
    \/ RemoveWrite

\* two processes on one table file, without serialization
SpecRace == Init /\ [][NextRace]_vars

NextParse ==
    \/ Return
    \/ Parse

\* the parser
SpecParse == InitParse /\ [][NextParse]_vars

NextSpaced ==
    \/ Return
    \/ \E e \in SpacedEntries :
          /\ Len(parse_fstab(fstab)) < MaxRecords
          /\ Add(e, FALSE, "none")
    \/ \E mp \in SpacedMountpoints : Remove(mp, FALSE, "none")

\* the table store, called with mountpoints that contain a space
SpecSpaced == Init /\ [][NextSpaced]_vars

\* the validator alone
SpecValidate == Init /\ [][NextValidate]_vars

\* the table store
SpecTable == Init /\ [][NextTable]_vars

\* the mount orchestrator

SpecMount == InitMount /\ [][NextMount]_vars

---------------------------------------------------------------------------
(* Claims about the table store and the validator *)

\* the record the last operation was called with
LastEntry == args.entry[1]

\* the last operation was an add of a record whose mountpoint the parsed
\* table already held
AddOfDuplicate ==
    /\ op = "add"
    /\ pre.fstab_exists
    /\ LET entries == parse_fstab(pre.fstab)
       IN  \E i \in 1..Len(entries) :
              entries[i].mountpoint = LastEntry.mountpoint

\* the backup step of the last operation was refused by the OS
BackupRefused ==
    /\ args.create_backup
    /\ exc # None
    /\ exc[1].type = "PermissionError"
    /\ exc[1].text \in {"mkdir", "copy2"}

\* C1 as stated: add of a record whose mountpoint is already in the table
\* fails with the duplicate-mountpoint error, whatever the other fields
\* are, and leaves the table file unchanged
C1_DuplicateErrorWhateverFields ==
    AddOfDuplicate =>
        /\ exc # None
        /\ exc[1].text = "Mountpoint {} already exists in fstab"
        /\ fstab = pre.fstab

\* C1 as amended: add of a record whose mountpoint is already in the table
\* fails and leaves the table file unchanged, whatever the other fields are;
\* the error is the validation error if the record fails validate, else the
\* OS error of the backup step if that step is refused, else the
\* duplicate-mountpoint error naming the mountpoint
C1_DuplicateAlwaysFails ==
    AddOfDuplicate =>
        /\ exc # None
        /\ ret = None
        /\ fstab = pre.fstab
        /\ ~HasEvent(log, "write")
        /\ IF ~validate_entry(LastEntry).ok
           THEN exc[1].text = "Invalid fstab entry: {}"
           ELSE IF args.create_backup
                   /\ args.fault \in {"backup_mkdir", "backup_copy"}
           THEN BackupRefused
           ELSE /\ exc[1].type = "ValueError"
                /\ exc[1].text = "Mountpoint {} already exists in fstab"
                /\ exc[1].arg = LastEntry.mountpoint

\* C1 witness: a valid record is refused as a duplicate of a record that
\* differs from it in source, type, options, dump, pass and comment
C1_Witness ==
    /\ AddOfDuplicate
    /\ exc # None
    /\ exc[1].text = "Mountpoint {} already exists in fstab"
    /\ \E i \in 1..Len(parse_fstab(pre.fstab)) :
          LET x == parse_fstab(pre.fstab)[i]
          IN  /\ x.mountpoint = LastEntry.mountpoint
              /\ x.source # LastEntry.source
              /\ x.fstype # LastEntry.fstype
              /\ x.options # LastEntry.options
              /\ x.dump # LastEntry.dump
              /\ x.pass_num # LastEntry.pass_num
              /\ x.comment # LastEntry.comment

\* C2: when add or remove, called with create_backup, writes the table
\* file, it has written before, in the same call, a backup file holding the
\* content the table file had when the call began; and when the backup step
\* is refused the table file is not written
C2_BackupBeforeWrite ==
    (op \in {"add", "remove"} /\ args.create_backup) =>
        /\ (HasEvent(log, "write") \/ fstab # pre.fstab) =>
              /\ \E j \in 1..Len(log) :
                    /\ log[j].ev = "write"
                    /\ \E i \in 1..(j - 1) :
                          log[i].ev = "backup" /\ log[i].data = pre.fstab
                    /\ \A i \in 1..(j - 1) : log[i].ev # "write"
              /\ pre.clock \in DOMAIN backups
              /\ backups[pre.clock] = pre.fstab
        /\ BackupRefused =>
              /\ fstab = pre.fstab
              /\ ~HasEvent(log, "write")

\* C2 witness: a remove with create_backup rewrote the table file
C2_Witness ==
    /\ op = "remove"
    /\ args.create_backup
    /\ HasEvent(log, "write")
    /\ fstab # pre.fstab
    /\ backups[pre.clock] = pre.fstab

\* the conditions C3 states for a valid record
StatedValid(e) ==
    /\ e.source # <<>>
    /\ e.mountpoint # <<>>
    /\ e.fstype # <<>>
    /\ e.options # <<>>
    /\ StartsWith(e.mountpoint, s_slash) \/ e.mountpoint \in {s_none, s_swap}
    /\ e.dump \in {0, 1, 2}
    /\ e.pass_num \in {0, 1, 2}

\* C3: validate returns ok=true if and only if source, mountpoint, type and
\* options are non-empty, the mountpoint is absolute or one of the swap
\* sentinels "none"/"swap", and dump and pass_num are in {0,1,2}
C3_ValidateIffStated ==
    op = "validate" => (ret[1].ok <=> StatedValid(LastEntry))

\* C4: add of a record that fails validate raises the validation error with
\* the violated rule and touches nothing: the table file, the backup files
\* and the backup directory are as before, also with create_backup
C4_InvalidAddTouchesNothing ==
    (op = "add" /\ ~validate_entry(LastEntry).ok) =>
        /\ exc # None
        /\ ret = None
        /\ exc[1].type = "ValueError"
        /\ exc[1].text = "Invalid fstab entry: {}"
        /\ LastEntry.source = <<>> => exc[1].arg = "Source cannot be empty"
        /\ (LastEntry.source # <<>> /\ LastEntry.mountpoint = s_none)
              => exc[1].arg = "Mountpoint must be absolute path"
        /\ (LastEntry.source # <<>> /\ LastEntry.mountpoint = s_a
            /\ LastEntry.dump = 3)
              => exc[1].arg = "Dump must be 0, 1, or 2"
        /\ log = <<>>
        /\ fstab = pre.fstab
        /\ fstab_exists = pre.fstab_exists
        /\ backups = pre.backups
        /\ backup_dir_exists = pre.backup_dir_exists

\* C4 witness: an invalid record was added with create_backup to an
\* existing table that has no backup yet
C4_Witness ==
    /\ op = "add"
    /\ ~validate_entry(LastEntry).ok
    /\ args.create_backup
    /\ args.fault = "none"
    /\ pre.fstab_exists
    /\ exc # None
    /\ DOMAIN backups = {}

---------------------------------------------------------------------------
(* Claims about the mount orchestrator *)

\* the result the last operation returned
Result == ret[1]

\* how often the last operation ran the tool or took the step ev
Count(ev) == Cardinality({i \in 1..Len(log) : log[i].ev = ev})

\* C5: remount takes the unmount step if and only if verify_mount reports
\* the record's mountpoint as mounted when remount starts; it takes the
\* mount step only after the unmount step succeeded or was skipped; if the
\* unmount step fails, mount is never run and remount returns success=false
C5_RemountOrder ==
    op = "remount" =>
        /\ HasEvent(log, "unmount_entry")
              <=> (args.entry # None
                   /\ verify_mount(pre, args.entry[1].mountpoint))
        /\ \A j \in 1..Len(log) :
              log[j].ev \in {"mount_entry", "mount"} =>
                  \/ ~HasEvent(log, "unmount_entry")
                  \/ \E i \in 1..(j - 1) : log[i].ev = "unmount_ok"
        /\ HasEvent(log, "unmount_failed") =>
              /\ ~HasEvent(log, "mount_entry")
              /\ ~HasEvent(log, "mount")
              /\ ~Result.success
              /\ Result.message.text
                    = "Failed to unmount before remounting: {}"

\* C5 witness: the mountpoint was mounted, umount was run and refused, and
\* remount returned failure
C5_Witness ==
    /\ op = "remount"
    /\ args.entry # None
    /\ verify_mount(pre, args.entry[1].mountpoint)
    /\ HasEvent(log, "umount")
    /\ HasEvent(log, "unmount_failed")
    /\ ~Result.success

\* C6 as stated: unmount of a mountpoint that is absent from the live mount
\* table returns success=true with the message that it is not mounted
C6_NotMountedAlwaysSucceeds ==
    (op = "unmount" /\ ~IsMounted(pre, args.mountpoint)) =>
        /\ Result.success
        /\ Result.message.text = "{} is not mounted"

\* C6 as amended: for a mountpoint absent from the live mount table,
\* unmount returns success=true with the not-mounted message when the path
\* is non-empty and exists and umount exits nonzero saying "not mounted";
\* it returns success=false without running umount when the path is empty
\* or does not exist, and success=false when umount times out, cannot be
\* run, or exits nonzero with another message
C6_NotMountedByCase ==
    (op = "unmount" /\ ~IsMounted(pre, args.mountpoint)) =>
        /\ mounts = pre.mounts
        /\ (args.mountpoint = <<>> \/ ~PathExists(pre, args.mountpoint)) =>
              /\ ~Result.success
              /\ ~HasEvent(log, "umount")
              /\ Result.message.text
                    \in {"Mountpoint cannot be empty",
                         "Mountpoint does not exist: {}"}
        /\ (args.mountpoint # <<>> /\ PathExists(pre, args.mountpoint)) =>
              /\ Count("umount") = 1
              /\ (args.umount.kind = "exit" /\ args.umount.rc # 0
                  /\ Contains(Lower(ErrorMsg(args.umount)), s_not_mounted)) =>
                    /\ Result.success
                    /\ Result.message
                          = Msg("{} is not mounted", args.mountpoint)
                    /\ Result.mountpoint = Some(args.mountpoint)
                    /\ Result.error_code = None
              /\ (args.umount.kind = "exit" /\ args.umount.rc # 0
                  /\ ~Contains(Lower(ErrorMsg(args.umount)), s_not_mounted)) =>
                    /\ ~Result.success
                    /\ Result.error_code = Some(args.umount.rc)
              /\ args.umount.kind \notin {"exit"} =>
                    /\ ~Result.success
                    /\ Result.error_code = None

\* C6 witness: umount said "not mounted" for an existing directory nothing
\* is mounted on, and unmount returned success with the not-mounted message
C6_Witness ==
    /\ op = "unmount"
    /\ ~IsMounted(pre, args.mountpoint)
    /\ args.mountpoint = s_mnt_nas
    /\ args.umount.kind = "exit"
    /\ args.umount.rc # 0
    /\ Result.success
    /\ Result.message = Msg("{} is not mounted", s_mnt_nas)

\* C7: whenever umount exits nonzero with "busy" in its stderr, unmount
\* returns success=false with the device-busy message and the exit code
C7_BusyNeverSuccess ==
    (op = "unmount" /\ args.umount.kind = "exit" /\ args.umount.rc # 0
     /\ Contains(args.umount.stderr, s_busy)) =>
        /\ ~Result.success
        /\ Result.message.text
              = "Unmount failed: Device is busy. Try force unmount or close applications using this mount."
        /\ Result.error_code = Some(args.umount.rc)

\* the components of the directory create_mountpoint is to work under
TargetRoot(user_only) ==
    IF user_only THEN PathJoin(PathOf(s_media), s_username).parts
    ELSE PathOf(s_mnt).parts

\* C8: for a non-empty input, whenever create_mountpoint returns success
\* the mountpoint it returns lies inside the target root and has no ".."
\* component
C8_InsideTargetRoot ==
    (op = "create_mountpoint" /\ args.path # <<>> /\ Result.success) =>
        LET parts == PathOf(Result.mountpoint[1]).parts
            root == TargetRoot(args.user_only)
        IN  /\ Len(parts) > Len(root)
            /\ SubSeq(parts, 1, Len(root)) = root
            /\ \A i \in 1..Len(parts) : parts[i] # s_dotdot

\* the preconditions of mount, on the world the call began in
MountPreconditions ==
    /\ args.entry # None
    /\ args.entry[1].source # <<>>
    /\ args.entry[1].mountpoint # <<>>
    /\ args.entry[1].fstype # <<>>
    /\ Canon(args.entry[1].mountpoint) \in pre.dirs

\* C9: mount runs the mount utility only if source, mountpoint and fstype
\* are non-empty and the mountpoint exists and is a directory; when a
\* precondition fails it returns success=false with a descriptive message
\* and does not run the utility
C9_MountPreconditions ==
    op = "mount" =>
        /\ HasEvent(log, "mount") => MountPreconditions
        /\ ~MountPreconditions =>
              /\ ~Result.success
              /\ ~HasEvent(log, "mount")
              /\ mounts = pre.mounts
              /\ Result.error_code = None
              /\ Result.message.text
                    \in {"Invalid entry: missing required fields",
                         "Mountpoint does not exist: {}. Create it first.",
                         "Mountpoint is not a directory: {}"}
              /\ (args.entry # None /\ args.entry[1].source # <<>>
                  /\ args.entry[1].fstype # <<>>
                  /\ Canon(args.entry[1].mountpoint) \in pre.files) =>
                    Result.message
                       = Msg("Mountpoint is not a directory: {}",
                             args.entry[1].mountpoint)

\* C9 witness: the mountpoint of a complete record is a regular file and
\* mount returned failure
C9_Witness ==
    /\ op = "mount"
    /\ args.entry # None
    /\ args.entry[1].source # <<>>
    /\ args.entry[1].fstype # <<>>
    /\ Canon(args.entry[1].mountpoint) \in pre.files
    /\ ~Result.success

\* C10: mount returns success=true if and only if the mount utility was
\* run and exited 0; a nonzero exit yields success=false with the exit code
\* and the tool's stderr, or its stdout when stderr is empty (empty once
\* surrounding whitespace is stripped); timeout, permission denied and
\* missing executable each yield success=false with their own message and
\* no exit code; the utility is run at most once per call
C10_MountClassification ==
    op = "mount" =>
        /\ Count("mount") <= 1
        /\ Result.success
              <=> (HasEvent(log, "mount") /\ args.mount.kind = "exit"
                   /\ args.mount.rc = 0)
        /\ (HasEvent(log, "mount") /\ args.mount.kind = "exit"
            /\ args.mount.rc # 0) =>
              /\ Result.error_code = Some(args.mount.rc)
              /\ Result.message.text = "Mount failed: {}"
              /\ Result.message.arg
                    = IF Strip(args.mount.stderr) # <<>>
                      THEN Strip(args.mount.stderr)
                      ELSE Strip(args.mount.stdout)
              /\ mounts = pre.mounts
        /\ (HasEvent(log, "mount") /\ args.mount.kind = "timeout") =>
              /\ ~Result.success
              /\ Result.error_code = None
              /\ Result.message.text = "Mount operation timed out"
        /\ (HasEvent(log, "mount") /\ args.mount.kind = "permission") =>
              /\ ~Result.success
              /\ Result.error_code = None
              /\ Result.message.text
                    = "Permission denied. Root privileges required for mounting."
        /\ (HasEvent(log, "mount") /\ args.mount.kind = "notfound") =>
              /\ ~Result.success
              /\ Result.error_code = None
              /\ Result.message.text
                    = "mount command not found. Install mount utilities."

\* C10 witness: mount exited nonzero with a blank stderr and the failure
\* carries the exit code and the stdout
C10_Witness ==
    /\ op = "mount"
    /\ HasEvent(log, "mount")
    /\ args.mount.kind = "exit"
    /\ args.mount.rc = 1
    /\ Strip(args.mount.stderr) = <<>>
    /\ Result.error_code = Some(1)
    /\ Result.message.arg = Strip(args.mount.stdout)
    /\ Result.message.arg # <<>>

---------------------------------------------------------------------------
(* Claims about what add and remove leave in the table file *)

\* C11: after add succeeds on an existing table file, parse returns the
\* records it returned before the add, in the same order and with the same
\* fields, followed by the added record as the last record
C11_AddAppendsRecord ==
    (op = "add" /\ exc = None /\ pre.fstab_exists) =>
        parse_fstab(fstab) = parse_fstab(pre.fstab) \o <<LastEntry>>

\* the text C12 states add appends for the record e
StatedSuffix(e) ==
    (IF e.comment # None /\ e.comment[1] # <<>>
     THEN <<"#", " ">> \o e.comment[1] \o <<"\n">> ELSE <<>>)
    \o e.source \o <<"\t">> \o e.mountpoint \o <<"\t">> \o e.fstype
    \o <<"\t">> \o Join(e.options, <<",">>) \o <<"\t">> \o IntToStr(e.dump)
    \o <<"\t">> \o IntToStr(e.pass_num) \o <<"\n">>

\* C12: a successful add only appends: the content before the call is a
\* prefix of the content after it, and the appended suffix is the
\* "# <comment>" line, present if and only if the record has a non-empty
\* comment, followed by the record's tab-joined line and a newline
C12_AddOnlyAppends ==
    (op = "add" /\ exc = None) =>
        /\ ret = Some(TRUE)
        /\ Len(fstab) > Len(pre.fstab)
        /\ SubSeq(fstab, 1, Len(pre.fstab)) = pre.fstab
        /\ SubSeq(fstab, Len(pre.fstab) + 1, Len(fstab))
              = StatedSuffix(LastEntry)
        /\ fstab_exists

\* C12 witness: a record with a comment was appended, comment line first
C12_Witness ==
    /\ op = "add"
    /\ exc = None
    /\ LastEntry.comment = Some(<<"n","a","s">>)
    /\ SubSeq(fstab, Len(pre.fstab) + 1, Len(pre.fstab) + 6)
          = <<"#", " ", "n", "a", "s", "\n">>
    /\ pre.fstab # <<>>

\* the parsed table holds a record on mountpoint
HasMountpoint(content, mountpoint) ==
    LET entries == parse_fstab(content)
    IN  \E i \in 1..Len(entries) : entries[i].mountpoint = mountpoint

\* C13: remove on a table that has no record with the mountpoint returns
\* false, leaves the table file unchanged and creates no backup, also with
\* create_backup; hence after a successful remove the table has no record
\* with the mountpoint and the same remove, repeated at once, returns false
\* and changes nothing
C13_RemoveAbsentIsNoOp ==
    /\ (op = "remove" /\ pre.fstab_exists
        /\ ~HasMountpoint(pre.fstab, args.mountpoint)) =>
          /\ exc = None
          /\ ret = Some(FALSE)
          /\ log = <<>>
          /\ fstab = pre.fstab
          /\ fstab_exists = pre.fstab_exists
          /\ backups = pre.backups
          /\ backup_dir_exists = pre.backup_dir_exists
    /\ (op = "remove" /\ ret = Some(TRUE)) =>
          /\ ~HasMountpoint(fstab, args.mountpoint)
          /\ \A cb \in BOOLEAN, fault \in Faults :
                remove_entry(World, args.mountpoint, cb, clock, fault)
                    = Returned(World, FALSE, <<>>)

\* C13 witness: a remove with create_backup found no record in a table
\* that an earlier successful remove had rewritten, and returned false
C13_Witness ==
    /\ op = "remove"
    /\ args.create_backup
    /\ args.mountpoint = s_a
    /\ ret = Some(FALSE)
    /\ StartsWith(pre.fstab, s_header)
    /\ fstab = pre.fstab
    /\ backups = pre.backups

\* C14: after remove returns true, parse returns the previously parsed
\* records whose mountpoint differs from the removed one, in their order
\* and equal in source, mountpoint, fstype, options, dump and pass_num; no
\* record with the removed mountpoint remains
C14_RemoveKeepsOthers ==
    (op = "remove" /\ ret = Some(TRUE)) =>
        LET kept == SelectSeq(parse_fstab(pre.fstab),
                        LAMBDA x : x.mountpoint # args.mountpoint)
            after == parse_fstab(fstab)
        IN  /\ Len(after) = Len(kept)
            /\ Len(kept) < Len(parse_fstab(pre.fstab))
            /\ \A i \in 1..Len(kept) :
                  /\ after[i].source = kept[i].source
                  /\ after[i].mountpoint = kept[i].mountpoint
                  /\ after[i].fstype = kept[i].fstype
                  /\ after[i].options = kept[i].options
                  /\ after[i].dump = kept[i].dump
                  /\ after[i].pass_num = kept[i].pass_num
            /\ \A i \in 1..Len(after) :
                  after[i].mountpoint # args.mountpoint

\* C14 witness: one of four parsed records was removed and the three
\* others, one of them with two options and pass_num 2, were written back
C14_Witness ==
    /\ op = "remove"
    /\ ret = Some(TRUE)
    /\ Len(parse_fstab(pre.fstab)) = 4
    /\ Len(parse_fstab(fstab)) = 3
    /\ parse_fstab(fstab)[2].options = <<<<"r","o">>, <<"n","o","f","a","i","l">>>>
    /\ parse_fstab(fstab)[2].pass_num = 2

---------------------------------------------------------------------------
(* Claims about regeneration and backups *)

\* the records a and b are equal in every field
SameRecord(a, b) ==
    /\ a.source = b.source
    /\ a.mountpoint = b.mountpoint
    /\ a.fstype = b.fstype
    /\ a.options = b.options
    /\ a.dump = b.dump
    /\ a.pass_num = b.pass_num
    /\ a.comment = b.comment

\* C15: for every list of records that each pass validate, parsing the
\* file that holds the regenerated content of the list returns a list of
\* the same length whose records equal the inputs in source, mountpoint,
\* fstype, options, dump, pass_num and comment
C15_RoundTrip ==
    (op = "write"
     /\ \A i \in 1..Len(args.entries) : validate_entry(args.entries[i]).ok) =>
        /\ Len(parse_fstab(fstab)) = Len(args.entries)
        /\ \A i \in 1..Len(args.entries) :
              SameRecord(parse_fstab(fstab)[i], args.entries[i])

\* C16: the backup directory is append-only: no step of backup, add or
\* remove, at whatever clock time, removes a backup file or changes the
\* content it was created with
C16_BackupsAppendOnly ==
    [][\A t \in DOMAIN backups :
          t \in DOMAIN backups' /\ backups'[t] = backups[t]]_vars

\* C17: backup of an existing file produces a backup file whose content
\* is byte-identical to the source file at the moment of the call and
\* leaves the source file unchanged; when the source file is absent it
\* fails with FileNotFoundError and creates neither a backup file nor the
\* backup directory
C17_BackupPreservesBytes ==
    op = "backup" =>
        /\ fstab = pre.fstab
        /\ fstab_exists = pre.fstab_exists
        /\ (pre.fstab_exists /\ args.fault = "none") => exc = None
        /\ (pre.fstab_exists /\ exc = None) =>
              /\ ret = Some(pre.clock)
              /\ backup_dir_exists
              /\ pre.clock \in DOMAIN backups
              /\ backups[pre.clock] = pre.fstab
              /\ \A t \in DOMAIN pre.backups :
                    t # pre.clock =>
                        t \in DOMAIN backups /\ backups[t] = pre.backups[t]
        /\ ~pre.fstab_exists =>
              /\ exc # None
              /\ ret = None
              /\ exc[1].type = "FileNotFoundError"
              /\ backups = pre.backups
              /\ backup_dir_exists = pre.backup_dir_exists
              /\ ~backup_dir_exists

\* C17 witness: the first backup of an existing table file was made, the
\* backup directory with it
C17_Witness ==
    /\ op = "backup"
    /\ pre.fstab_exists
    /\ ~pre.backup_dir_exists
    /\ pre.fstab = SampleFstab
    /\ exc = None
    /\ backup_dir_exists
    /\ backups[pre.clock] = SampleFstab

---------------------------------------------------------------------------
(* Claims about create_mountpoint on an existing target *)

\* the target path of the last create_mountpoint call
Target == PathStr(FullPath(args.path, args.user_only))

\* C18: when the target of create_mountpoint already exists and is a
\* directory, it returns success ("already exists") with that path and
\* makes no mkdir, chown or chmod; when the target exists and is not a
\* directory it returns failure; so a successful call, repeated with the
\* same arguments, succeeds again with the same mountpoint path
C18_CreateIdempotent ==
    (op = "create_mountpoint" /\ args.path # <<>>
     /\ Sanitize(args.path) # <<>>) =>
        /\ Canon(Target) \in pre.dirs =>
              /\ Result.success
              /\ Result.message = Msg("Mountpoint already exists: {}", Target)
              /\ Result.mountpoint = Some(Target)
              /\ log = <<>>
              /\ dirs = pre.dirs
              /\ files = pre.files
        /\ Canon(Target) \in pre.files =>
              /\ ~Result.success
              /\ Result.message
                    = Msg("Path exists but is not a directory: {}", Target)
              /\ log = <<>>
              /\ dirs = pre.dirs
              /\ files = pre.files
        /\ Result.success =>
              /\ Canon(Target) \in dirs
              /\ \A fault \in CreateFaults :
                    LET again == create_mountpoint(World, args.path,
                                                   args.user_only, fault)
                    IN  /\ again.ret[1].success
                        /\ again.ret[1].mountpoint = Result.mountpoint
                        /\ again.log = <<>>
                        /\ again.w = World

\* C18 witness: a directory that an earlier call had created was found to
\* exist, and nothing was done to it
C18_Witness ==
    /\ op = "create_mountpoint"
    /\ args.path = <<"n","a","s">>
    /\ args.user_only
    /\ Result.success
    /\ Result.message.text = "Mountpoint already exists: {}"
    /\ Result.mountpoint = Some(s_media \o s_slash \o s_username
                                \o s_slash \o <<"n","a","s">>)
    /\ log = <<>>

---------------------------------------------------------------------------
(* Claims about the template engine *)

\* C19: apply never modifies the template: after any sequence of apply
\* calls every template's default_options and nfs_options equal their
\* values at load, so an apply call returns the record that the same call
\* returns on the templates as loaded
C19_TemplatesImmutable ==
    op = "apply" =>
        /\ \A id \in DOMAIN Catalog :
              /\ templates[id].default_options = Catalog[id].default_options
              /\ templates[id].nfs_options = Catalog[id].nfs_options
        /\ exc = None =>
              ret = apply_template([World EXCEPT !.templates = Catalog],
                                   args.template, args.user_input,
                                   args.use_nfs).ret

\* C20: apply fails with one missing-field error that names every required
\* field (host, mountpoint) absent from the input: both names when both are
\* absent, the one absent name otherwise; no record is produced
C20_MissingFieldsAllNamed ==
    op = "apply" =>
        LET no_host == s_host \notin DOMAIN args.user_input
            no_mountpoint == s_mountpoint \notin DOMAIN args.user_input
        IN  /\ (no_host \/ no_mountpoint) =>
                  /\ exc # None
                  /\ ret = None
                  /\ exc[1].type = "ValueError"
                  /\ exc[1].text = "Missing required fields: {}"
                  /\ templates = pre.templates
            /\ (no_host /\ no_mountpoint) =>
                  exc[1].arg = <<"h","o","s","t",","," ","m","o","u","n","t","p","o","i","n","t">>
            /\ (no_host /\ ~no_mountpoint) => exc[1].arg = s_host
            /\ (~no_host /\ no_mountpoint) => exc[1].arg = s_mountpoint
            /\ (~no_host /\ ~no_mountpoint /\ exc # None) =>
                  exc[1].text # "Missing required fields: {}"

\* C20 witness: an input without host and without mountpoint was refused
\* with both names
C20_Witness ==
    /\ op = "apply"
    /\ s_host \notin DOMAIN args.user_input
    /\ s_mountpoint \notin DOMAIN args.user_input
    /\ s_share_key \in DOMAIN args.user_input
    /\ exc # None
    /\ exc[1].arg = s_host \o <<",", " ">> \o s_mountpoint

\* the record the last apply returned
Applied == ret[1]

\* the template object the last apply was called with, as it was at the call
AppliedTemplate == pre.templates[args.template]

\* C21: the source of the record apply returns follows the record's
\* filesystem type: //host/share for cifs and smb; host:export for nfs and
\* nfs4, where export is the input's export field whenever it is present
\* and the share field only when export is absent
C21_SourceByType ==
    (op = "apply" /\ exc = None) =>
        LET ui == args.user_input
            share == IF s_share_key \in DOMAIN ui THEN ui[s_share_key]
                     ELSE <<>>
            export == IF s_export \in DOMAIN ui THEN ui[s_export] ELSE share
        IN  /\ Applied.fstype \in {s_cifs, s_smb} =>
                  Applied.source
                      = <<"/", "/">> \o ui[s_host] \o <<"/">> \o share
            /\ Applied.fstype \in {s_nfs, s_nfs4} =>
                  Applied.source = ui[s_host] \o <<":">> \o export

\* C22: with use_nfs on a template with nfs_support the record's type is
\* nfs or nfs4 and is the template's own NFS variant (nfs4 for a template of
\* protocol nfs4, nfs for one of protocol nfs); without use_nfs the type is
\* the template's protocol; with use_nfs and no nfs_support apply fails
\* with the unsupported-protocol error
C22_NfsVariant ==
    (op = "apply" /\ MissingFields(args.user_input) = <<>>) =>
        LET t == AppliedTemplate
        IN  /\ (args.use_nfs /\ t.nfs_support /\ exc = None) =>
                  /\ Applied.fstype \in {s_nfs, s_nfs4}
                  /\ t.protocol = s_nfs4 => Applied.fstype = s_nfs4
                  /\ t.protocol = s_nfs => Applied.fstype = s_nfs
            /\ (~args.use_nfs /\ exc = None) => Applied.fstype = t.protocol
            /\ (args.use_nfs /\ ~t.nfs_support) =>
                  /\ exc # None
                  /\ exc[1].text = "{} does not support NFS"
                  /\ exc[1].arg = t.name

\* the option key=value of the input's field key
InputOption(name, key) == name \o <<"=">> \o args.user_input[key]

\* the options that carry a credential
CredentialOptions(options) ==
    {o \in Elements(options) :
        \/ StartsWith(o, s_credentials \o <<"=">>)
        \/ StartsWith(o, s_username_key \o <<"=">>)
        \/ StartsWith(o, s_password \o <<"=">>)}

\* C23: credentials are injected only for auth_method 'credentials': with
\* credentials_file in the input the options hold credentials=<path> and no
\* username= or password= option (the raw password never appears); else with
\* username they hold username=<u> and, exactly when password is present,
\* password=<p>; for any other auth_method no credential option is added
C23_CredentialInjection ==
    (op = "apply" /\ exc = None) =>
        LET ui == args.user_input
            t == AppliedTemplate
            opts == Applied.options
            start == StartOptions(t, args.use_nfs)
        IN  IF t.auth_method # s_credentials
            THEN CredentialOptions(opts) = CredentialOptions(start)
            ELSE IF s_credentials_file \in DOMAIN ui
            THEN /\ InputOption(s_credentials, s_credentials_file)
                        \in Elements(opts)
                 /\ \A o \in CredentialOptions(opts) :
                        StartsWith(o, s_credentials \o <<"=">>)
            ELSE IF s_username_key \in DOMAIN ui
            THEN /\ InputOption(s_username_key, s_username_key)
                        \in Elements(opts)
                 /\ s_password \in DOMAIN ui =>
                        InputOption(s_password, s_password) \in Elements(opts)
                 /\ s_password \notin DOMAIN ui =>
                        \A o \in CredentialOptions(opts) :
                            ~StartsWith(o, s_password \o <<"=">>)
                 /\ \A o \in CredentialOptions(opts) :
                        ~StartsWith(o, s_credentials \o <<"=">>)
            ELSE CredentialOptions(opts) = {}

\* the uid or gid step as C24 states it: key=value is appended when the
\* input has key and no element of the options is key=value
StatedId(user_input, key, options) ==
    IF key \in DOMAIN user_input
       /\ key \o <<"=">> \o user_input[key] \notin Elements(options)
    THEN Append(options, key \o <<"=">> \o user_input[key])
    ELSE options

\* C24: uid=<v> (gid=<v>) is appended exactly when the input has uid (gid)
\* and that option is not yet among the options, so the options of the
\* record hold the element uid=<v> (gid=<v>) whenever the input has uid
\* (gid), and nothing is appended when the input has none
C24_UidGidAppended ==
    (op = "apply" /\ exc = None) =>
        LET ui == args.user_input
            before == WithCredentials(AppliedTemplate, ui,
                          StartOptions(AppliedTemplate, args.use_nfs))
        IN  /\ Applied.options
                  = StatedId(ui, s_gid, StatedId(ui, s_uid, before))
            /\ s_uid \in DOMAIN ui =>
                  InputOption(s_uid, s_uid) \in Elements(Applied.options)
            /\ s_gid \in DOMAIN ui =>
                  InputOption(s_gid, s_gid) \in Elements(Applied.options)

---------------------------------------------------------------------------
(* Claims about the mount-state reader *)

\* the octal escapes of whitespace decoded, as C25 states the comparison
StatedDecode(s) ==
    Replace(Replace(Replace(s, s_040, <<" ">>),
                    <<"\\","0","1","1">>, <<"\t">>),
            <<"\\","0","1","2">>, <<"\n">>)

\* the live mount table has an entry whose mountpoint field, decoded, is
\* the canonical absolute form of the path
StatedMounted(w, path) ==
    \E i \in 1..Len(w.mounts) :
        StatedDecode(KernelEscape(w.mounts[i].mountpoint)) = Canon(path)

\* C25: is_mounted returns true if and only if the live mount table has an
\* entry whose mountpoint field, with octal-escaped whitespace decoded,
\* equals the canonical absolute form of the queried path; an empty query
\* or an unreadable table yields false, never an error
C25_IsMountedIff ==
    op = "verify" =>
        /\ exc = None
        /\ ret # None
        /\ args.path = <<>> => ret[1] = FALSE
        /\ args.fault = "proc_error" => ret[1] = FALSE
        /\ (args.fault = "proc_notfound" /\ args.mount.kind # "exit") =>
              ret[1] = FALSE
        /\ (args.path # <<>> /\ args.fault = "none") =>
              ret[1] = StatedMounted(pre, args.path)

---------------------------------------------------------------------------
(* Claims about two processes on one table file *)

\* both processes are done, add returned success, remove was given another
\* mountpoint, and parse finds no record of the added mountpoint
AddedIsLost ==
    /\ procs.adder.pc = "done"
    /\ procs.adder.ret = Some(TRUE)
    /\ procs.remover.pc = "done"
    /\ procs.remover.mountpoint # procs.adder.entry[1].mountpoint
    /\ ~MountpointExists(parse_fstab(fstab), procs.adder.entry[1])

\* C26: a lost update (the final file lacks the added record although add
\* returned success) happens only when the append of add falls between the
\* read and the whole-file rewrite of remove; with the operations executed
\* one at a time it cannot happen
C26_LostOnlyByRace == AddedIsLost => procs.adder.between

\* C26 witness: on the sample table, the record appended between the read
\* and the rewrite of a remove of /b is lost
C26_Witness ==
    /\ AddedIsLost
    /\ procs.adder.between
    /\ pre.fstab = SampleFstab
    /\ procs.remover.mountpoint = s_b
    /\ procs.remover.ret = Some(TRUE)
    /\ MountpointExists(parse_fstab(pre.fstab),
                        [mountpoint |-> s_b])

---------------------------------------------------------------------------
(* Claims about the comments parse attaches *)

\* the lines of the file that was parsed, stripped
ParsedLines ==
    [i \in 1..Len(FileLines(pre.fstab)) |-> Strip(FileLines(pre.fstab)[i])]

IsBlankLine(line) == line = <<>>

IsCommentLine(line) == StartsWith(line, <<"#">>)

\* a line that parse turns into a record
IsRecordLine(line) ==
    /\ ~IsBlankLine(line)
    /\ ~IsCommentLine(line)
    /\ parse_fstab_line(line, None) # None

\* the indexes of the record lines, in order
RecordIndexes ==
    SelectSeq([i \in 1..Len(ParsedLines) |-> i],
              LAMBDA i : IsRecordLine(ParsedLines[i]))

\* the comment C27 gives the record of line j: that of the last comment
\* line before it, unless a blank line or another record lies between them
StatedComment(j) ==
    LET ks == {k \in 1..(j - 1) :
                  \/ IsBlankLine(ParsedLines[k])
                  \/ IsCommentLine(ParsedLines[k])
                  \/ IsRecordLine(ParsedLines[k])}
        last == CHOOSE k \in ks : \A m \in ks : m <= k
    IN  IF ks # {} /\ IsCommentLine(ParsedLines[last])
        THEN Some(Strip(Tail(ParsedLines[last])))
        ELSE None

\* the comment of the record of line j when every line that is not a
\* comment line resets the pending comment: the text of line j - 1 if that
\* line is a comment line
PrecedingComment(j) ==
    IF j > 1 /\ IsCommentLine(ParsedLines[j - 1])
    THEN Some(Strip(Tail(ParsedLines[j - 1])))
    ELSE None

\* C27 as stated: parse returns the records of the record lines in order,
\* each with the comment of the last '#' line before it, the pending
\* comment being reset only by a record that takes it or by a blank line
C27_CommentResetByBlankOnly ==
    (op = "parse" /\ exc = None) =>
        ret[1] = [n \in 1..Len(RecordIndexes) |->
                    parse_fstab_line(ParsedLines[RecordIndexes[n]],
                                     StatedComment(RecordIndexes[n]))[1]]

\* C27, amended: parse returns the records of the record lines in order,
\* each with the text of the line just before it as its comment if that
\* line starts with '#', and with no comment otherwise: the pending comment
\* is reset by a record that takes it, by a blank line, and by a line of
\* too few fields; a comment is attached to at most one record
C27_CommentOfPrecedingLine ==
    (op = "parse" /\ exc = None) =>
        ret[1] = [n \in 1..Len(RecordIndexes) |->
                    parse_fstab_line(ParsedLines[RecordIndexes[n]],
                                     PrecedingComment(RecordIndexes[n]))[1]]

\* C27 witness: a file of a comment line, a line of too few fields and a
\* record was parsed, and the record has no comment
C27_Witness ==
    /\ op = "parse"
    /\ exc = None
    /\ Len(ParsedLines) = 3
    /\ IsCommentLine(ParsedLines[1])
    /\ ~IsBlankLine(ParsedLines[2])
    /\ ~IsCommentLine(ParsedLines[2])
    /\ ~IsRecordLine(ParsedLines[2])
    /\ IsRecordLine(ParsedLines[3])
    /\ Len(ret[1]) = 1
    /\ ret[1][1].comment = None

---------------------------------------------------------------------------
(* Claims about the states of a mountpoint *)

\* C28: remount of a record whose mountpoint is mounted when remount
\* starts: if remount returns success=false, the mountpoint is still
\* mounted afterwards
C28_FailedRemountKeepsMount ==
    (/\ op = "remount"
     /\ args.entry # None
     /\ IsMounted(pre, args.entry[1].mountpoint)
     /\ ~Result.success)
        => IsMounted(World, args.entry[1].mountpoint)

---------------------------------------------------------------------------
(* Claims about the mountpoints of the table *)

\* C29: the table files at start have records of pairwise distinct
\* mountpoints, and after any sequence of add and remove calls, one at a
\* time, the records parse returns have pairwise distinct mountpoints
C29_MountpointsDistinct ==
    LET entries == parse_fstab(fstab)
    IN  \A i, j \in 1..Len(entries) :
            entries[i].mountpoint = entries[j].mountpoint => i = j

\* C30: mount runs the mount utility only when the mountpoint of the record
\* is not mounted according to verify_mount, so that the live mount table
\* never holds two filesystems on one mountpoint
C30_MountOnlyWhenUnmounted ==
    /\ (op = "mount" /\ HasEvent(log, "mount")) =>
          ~verify_mount(pre, args.entry[1].mountpoint)
    /\ \A i, j \in 1..Len(mounts) :
          mounts[i].mountpoint = mounts[j].mountpoint => i = j

===========================================================================
